---------------------------- MODULE Spec2Model ----------------------------
(***************************************************************************)
(* Model of the mediarr sensors: the Seer discovery sensor                 *)
(* (discovery/seer_discovery.py), the Plex recently-added sensor           *)
(* (server/plex.py), the TMDB list sensor (discovery/tmdb.py) and their    *)
(* common base class (common/tmdb_sensor.py).                              *)
(*                                                                         *)
(* Python values are represented as follows.  A str is a TLA+ string.  An  *)
(* optional value (a dict key that may be absent, a variable that may be   *)
(* None) is a sequence of length at most one: <<>> is None, <<v>> is v.    *)
(* A list is a sequence, a set is a set, a dict with fixed keys a record.  *)
(***************************************************************************)
EXTENDS Integers, Sequences, FiniteSets, TLC

(***************************************************************************)
(* Bounds of the model.                                                    *)
(***************************************************************************)
MaxUpstream == 2    \* most upstream items the lists of a behaviour deliver
MaxMaxItems == 2    \* largest configured max_items

(***************************************************************************)
(* Optional values.                                                        *)
(***************************************************************************)
None == <<>>

Some(v) == <<v>>

\* Python truthiness of an optional str: None and '' are falsy
Truthy(o) == o # None /\ o[1] # ""

\* Python str() of an optional integer: str(None) is 'None'
Str(o) == IF o = None THEN "None" ELSE ToString(o[1])

\* the sequences over S of length at most n
SeqUpTo(S, n) == UNION {[1..k -> S] : k \in 0..n}

\* Python seq[:n] for n >= 0
Take(seq, n) == SubSeq(seq, 1, IF n < Len(seq) THEN n ELSE Len(seq))

\* the subsequence of seq whose elements satisfy Keep, in order
RECURSIVE SelectIdx(_, _, _)
SelectIdx(seq, keep, i) ==
    IF i > Len(seq) THEN <<>>
    ELSE (IF i \in keep THEN <<seq[i]>> ELSE <<>>) \o SelectIdx(seq, keep, i + 1)

(***************************************************************************)
(* Strings: str.lower(), the `in` operator on str, str.split(sep)[0] and   *)
(* int(str).                                                               *)
(***************************************************************************)
UpperChars == <<"A","B","C","D","E","F","G","H","I","J","K","L","M",
                "N","O","P","Q","R","S","T","U","V","W","X","Y","Z">>

LowerChars == <<"a","b","c","d","e","f","g","h","i","j","k","l","m",
                "n","o","p","q","r","s","t","u","v","w","x","y","z">>

LowerChar(c) ==
    IF \E i \in 1..26 : UpperChars[i] = c
    THEN LowerChars[CHOOSE i \in 1..26 : UpperChars[i] = c]
    ELSE c

RECURSIVE Lower(_)
Lower(s) == IF s = "" THEN "" ELSE LowerChar(Head(s)) \o Lower(Tail(s))

\* Python `k in s` for two str
Contains(s, k) ==
    \E i \in 1..(Len(s) - Len(k) + 1) : SubSeq(s, i, i + Len(k) - 1) = k

\* Python s.split(sep)[0]: the text before the first occurrence of sep
RECURSIVE BeforeFirst(_, _)
BeforeFirst(s, sep) ==
    IF Len(s) < Len(sep) THEN s
    ELSE IF SubSeq(s, 1, Len(sep)) = sep THEN ""
    ELSE SubSeq(s, 1, 1) \o BeforeFirst(SubSeq(s, 2, Len(s)), sep)

Digits == <<"0","1","2","3","4","5","6","7","8","9">>

IsDigit(c) == \E i \in 1..10 : Digits[i] = c

DigitVal(c) == (CHOOSE i \in 1..10 : Digits[i] = c) - 1

\* int(s) succeeds on a non-empty string of decimal digits
IntParses(s) == s # "" /\ \A i \in 1..Len(s) : IsDigit(SubSeq(s, i, i))

RECURSIVE IntOf(_)
IntOf(s) ==
    IF s = "" THEN 0
    ELSE 10 * IntOf(SubSeq(s, 1, Len(s) - 1)) + DigitVal(SubSeq(s, Len(s), Len(s)))

\* the optional year of `int(date.split('-')[0])` under try/except ValueError
ParseYear(date) ==
    LET head == BeforeFirst(date, "-")
    IN  IF IntParses(head) THEN Some(IntOf(head)) ELSE None


(***************************************************************************)
(* Upstream items (the JSON objects of a broker or catalog list).  Every   *)
(* key may be absent.  genre_ids, when present, is a list or JSON null.    *)
(***************************************************************************)
\* the empty dict {}: the only falsy item
EmptyItem ==
    [id |-> None, title |-> None, name |-> None, release_date |-> None,
     first_air_date |-> None, original_language |-> None, genre_ids |-> None,
     media_type |-> None, overview |-> None, poster_path |-> None,
     backdrop_path |-> None, popularity |-> None, vote_average |-> None]

\* Python dict.get(key, default) for a key that may be absent
Get(field, default) == IF field = None THEN default ELSE field[1]

\* filters as set by the constructors; exclude_genres is a list
Filters(min_year, talk, genres, non_english, hide) ==
    [language |-> "en", min_year |-> min_year, exclude_talk_shows |-> talk,
     exclude_genres |-> genres, exclude_non_english |-> non_english,
     hide_existing |-> hide]

DefaultFilters == Filters(0, TRUE, <<10763, 10764, 10767>>, TRUE, TRUE)

Keywords ==
    <<"tonight show", "late show", "late night", "daily show",
      "talk show", "with seth meyers", "with james corden",
      "with jimmy", "with stephen", "with trevor", "news",
      "live with", "watch what happens live", "the view",
      "good morning", "today show", "kimmel", "colbert",
      "fallon", "ellen", "conan", "graham norton", "meet the press",
      "face the nation", "last week tonight", "real time",
      "kelly and", "kelly &", "jeopardy", "wheel of fortune",
      "daily mail", "entertainment tonight", "zeiten", "schlechte">>

\* any(keyword in title.lower() for keyword in keywords)
HasKeyword(title) ==
    LET title_lower == Lower(title)
    IN  \E k \in 1..Len(Keywords) : Contains(title_lower, Keywords[k])

\* any(genre_id in excluded_genres for genre_id in genre_list)
AnyGenreExcluded(genre_list, excluded_genres) ==
    \E g \in 1..Len(genre_list) :
        \E e \in 1..Len(excluded_genres) : genre_list[g] = excluded_genres[e]

(***************************************************************************)
(* SeerDiscoveryMediarrSensor: the filter.  A filter evaluation either     *)
(* returns a boolean or raises; SeerFilterRaises tells which.              *)
(***************************************************************************)
SeerIsTalkShow(filters, title) ==
    IF ~filters.exclude_talk_shows \/ title = "" THEN FALSE
    ELSE HasKeyword(title)

\* the year of lines 51-61: None unless the date of the media type parses
SeerYear(item, media_type) ==
    IF media_type = "tv" /\ Truthy(item.first_air_date)
    THEN ParseYear(item.first_air_date[1])
    ELSE IF media_type = "movie" /\ Truthy(item.release_date)
    THEN ParseYear(item.release_date[1])
    ELSE None

\* the year rule taking a date without a year for the year 0
SeerYearRejectsUnparsed(filters, item, media_type) ==
    LET year == SeerYear(item, media_type)
    IN  (IF year = None THEN 0 ELSE year[1]) < filters.min_year

SeerYearRejects(filters, item, media_type) ==
    LET year == SeerYear(item, media_type)
    IN  year # None /\ year[1] # 0 /\ year[1] < filters.min_year

SeerLanguageRejects(filters, item) ==
    filters.exclude_non_english /\ item.original_language # Some("en")

\* iterating item.get('genre_ids', []) raises TypeError on JSON null
SeerFilterRaises(filters, item, media_type) ==
    /\ item # EmptyItem
    /\ ~SeerYearRejects(filters, item, media_type)
    /\ ~SeerLanguageRejects(filters, item)
    /\ filters.exclude_genres # <<>>
    /\ Get(item.genre_ids, Some(<<>>)) = None

SeerGenreRejects(filters, item) ==
    /\ filters.exclude_genres # <<>>
    /\ AnyGenreExcluded(Get(item.genre_ids, Some(<<>>))[1], filters.exclude_genres)

SeerTalkShowRejects(filters, item, media_type) ==
    /\ media_type = "tv"
    /\ filters.exclude_talk_shows
    /\ LET name == Get(item.name, "")
           title == IF name # "" THEN name ELSE Get(item.title, "")
       IN  SeerIsTalkShow(filters, title)

\* the value returned when the evaluation does not raise
SeerShouldIncludeItem(filters, item, media_type) ==
    IF item = EmptyItem THEN FALSE
    ELSE IF SeerYearRejects(filters, item, media_type) THEN FALSE
    ELSE IF SeerLanguageRejects(filters, item) THEN FALSE
    ELSE IF SeerGenreRejects(filters, item) THEN FALSE
    ELSE IF SeerTalkShowRejects(filters, item, media_type) THEN FALSE
    ELSE TRUE

\* how the evaluation ends: "raise", or the rule whose return statement
\* it reaches ("empty", "year", "language", "genre", "talk_show"), or
\* "include" for the final return True
SeerFilterExit(filters, item, media_type) ==
    IF SeerFilterRaises(filters, item, media_type) THEN "raise"
    ELSE IF item = EmptyItem THEN "empty"
    ELSE IF SeerYearRejects(filters, item, media_type) THEN "year"
    ELSE IF SeerLanguageRejects(filters, item) THEN "language"
    ELSE IF SeerGenreRejects(filters, item) THEN "genre"
    ELSE IF SeerTalkShowRejects(filters, item, media_type) THEN "talk_show"
    ELSE "include"

(***************************************************************************)
(* TMDBMediaSensor: the filter of the base class.                          *)
(***************************************************************************)
\* is_talk_show without the test of exclude_talk_shows
BaseIsTalkShowAlways(filters, title) == HasKeyword(title)

BaseIsTalkShow(filters, title) ==
    IF ~filters.exclude_talk_shows THEN FALSE ELSE HasKeyword(title)

\* the year rule returns False inside the try block, whenever the date of
\* the media type is truthy and its year parses below min_year
BaseYearRejects(filters, item, media_type) ==
    LET date == IF media_type = "tv" THEN item.first_air_date
                ELSE IF media_type = "movie" THEN item.release_date
                ELSE None
        year == IF Truthy(date) THEN ParseYear(date[1]) ELSE None
    IN  year # None /\ year[1] < filters.min_year

BaseLanguageRejects(filters, item) ==
    filters.exclude_non_english /\ item.original_language # Some("en")

\* iterating item.get('genre_ids', []) raises TypeError on JSON null
BaseGenreRaises(item) == Get(item.genre_ids, Some(<<>>)) = None

BaseGenreRejects(filters, item) ==
    AnyGenreExcluded(Get(item.genre_ids, Some(<<>>))[1], filters.exclude_genres)

BaseTalkShowRejects(filters, item, media_type) ==
    media_type = "tv" /\ BaseIsTalkShow(filters, Get(item.name, ""))

\* how should_include_item ends: "raise", the rule that returns False, or
\* "include"
BaseFilterExit(filters, item, media_type) ==
    IF BaseYearRejects(filters, item, media_type) THEN "year"
    ELSE IF BaseLanguageRejects(filters, item) THEN "language"
    ELSE IF BaseGenreRaises(item) THEN "raise"
    ELSE IF BaseGenreRejects(filters, item) THEN "genre"
    ELSE IF BaseTalkShowRejects(filters, item, media_type) THEN "talk_show"
    ELSE "include"

(***************************************************************************)
(* TMDBMediaSensor: the catalog client.  An HTTP exchange is a record:     *)
(* exc tells that the transport raised (connection error or the timeout    *)
(* of 10 seconds), otherwise status and the parsed JSON body.              *)
(***************************************************************************)
TMDB_IMAGE_BASE_URL == "https://image.tmdb.org/t/p"

Resp(exc, status, body) == [exc |-> exc, status |-> status, body |-> body]

\* whether _fetch_tmdb_data issues a request at all (line 113)
FetchIssuesRequest(api_key) == api_key # ""

\* _fetch_tmdb_data returning the body of every answer, whatever its status
FetchTmdbDataAnyStatus(api_key, resp) ==
    IF api_key = "" THEN None
    ELSE IF resp.exc THEN None
    ELSE Some(resp.body)

\* the optional body _fetch_tmdb_data returns for the exchange resp
FetchTmdbData(api_key, resp) ==
    IF api_key = "" THEN None
    ELSE IF resp.exc THEN None
    ELSE IF resp.status = 200 THEN Some(resp.body)
    ELSE IF resp.status = 404 THEN None
    ELSE None

DetailsKey(media_type, tmdb_id, language) ==
    "details_" \o media_type \o "_" \o tmdb_id \o "_" \o language

ImagesKey(media_type, tmdb_id) == "images_" \o media_type \o "_" \o tmdb_id

SearchKey(media_type, title, year, language) ==
    "search_" \o media_type \o "_" \o title \o "_" \o year \o "_" \o language

\* a details body: every key may be absent; {} is falsy
DetailsBody(title, name, overview, release_date, first_air_date) ==
    [title |-> title, name |-> name, overview |-> overview,
     release_date |-> release_date, first_air_date |-> first_air_date]

EmptyDetailsBody == DetailsBody(None, None, None, None, None)

\* Python s[:n] on a str
StrTake(s, n) == SubSeq(s, 1, IF n < Len(s) THEN n ELSE Len(s))

\* lines 268-277 of _get_tmdb_details: the optional details of a fetched body
DetailsOfData(data, media_type) ==
    IF data = None \/ data[1] = EmptyDetailsBody THEN None
    ELSE Some([title |-> Get(IF media_type = "movie" THEN data[1].title
                             ELSE data[1].name, "Unknown"),
               overview |-> Get(data[1].overview, "No description available."),
               year |-> StrTake(Get(IF media_type = "movie" THEN data[1].release_date
                                    ELSE data[1].first_air_date, ""), 4)])

\* an images body: posters and backdrops may be absent; {} is falsy
ImagesBody(posters, backdrops) == [posters |-> posters, backdrops |-> backdrops]

EmptyImagesBody == ImagesBody(None, None)

Poster(file_path) == [file_path |-> file_path]

Backdrop(file_path, vote_count) == [file_path |-> file_path, vote_count |-> vote_count]

\* list.sort(key=vote_count, reverse=True): stable, by decreasing key
RECURSIVE InsertByVotes(_, _)
InsertByVotes(sorted, b) ==
    IF sorted = <<>> THEN <<b>>
    ELSE IF Get(Head(sorted).vote_count, 0) >= Get(b.vote_count, 0)
         THEN <<Head(sorted)>> \o InsertByVotes(Tail(sorted), b)
         ELSE <<b>> \o sorted

RECURSIVE SortByVotes(_)
SortByVotes(backdrops) ==
    IF backdrops = <<>> THEN <<>>
    ELSE InsertByVotes(SortByVotes(SubSeq(backdrops, 1, Len(backdrops) - 1)),
                       backdrops[Len(backdrops)])

\* f"{base}/{size}{path}" if path else None
ImageUrl(size, path) ==
    IF Truthy(path) THEN Some(TMDB_IMAGE_BASE_URL \o "/" \o size \o path[1]) ELSE None

NoImages == <<None, None, None>>

\* lines 190-213 of _get_tmdb_images: the three URLs, given the poster URL
\* and the backdrops sorted by votes
ImagesOfSorted(poster_url, backdrops) ==
    LET backdrop_path == IF backdrops # <<>> THEN backdrops[1].file_path ELSE None
        main_backdrop_path == IF Len(backdrops) > 1 THEN backdrops[2].file_path
                              ELSE backdrop_path
    IN  <<poster_url,
          IF poster_url # None /\ ~Truthy(backdrop_path) THEN poster_url
          ELSE ImageUrl("w780", backdrop_path),
          IF poster_url # None /\ ~Truthy(main_backdrop_path) THEN poster_url
          ELSE ImageUrl("original", main_backdrop_path)>>

\* the three URLs of a body taking the backdrops in the order of the answer
ImagesOfDataUnsorted(body) ==
    ImagesOfSorted(IF Get(body.posters, <<>>) # <<>>
                   THEN ImageUrl("w500", Get(body.posters, <<>>)[1].file_path)
                   ELSE None,
                   Get(body.backdrops, <<>>))

\* lines 178-213 of _get_tmdb_images: (poster, backdrop, main_backdrop) of a body
ImagesOfData(body) ==
    ImagesOfSorted(IF Get(body.posters, <<>>) # <<>>
                   THEN ImageUrl("w500", Get(body.posters, <<>>)[1].file_path)
                   ELSE None,
                   SortByVotes(Get(body.backdrops, <<>>)))

\* whether a fetched images body is stored in the cache (`if data:`)
ImagesCached(data) == data # None /\ data[1] # EmptyImagesBody

\* the value _get_tmdb_images returns for a fetched body
ImagesOfFetch(data) == IF ImagesCached(data) THEN ImagesOfData(data[1]) ELSE NoImages

\* Python `x or ""` on an optional str
OrEmpty(o) == IF Truthy(o) THEN o[1] ELSE ""

(***************************************************************************)
(* The inputs of the model: the upstream answers are drawn from these      *)
(* sets.                                                                   *)
(***************************************************************************)
ItemMatrix ==
    [EmptyItem EXCEPT !.id = Some(1), !.title = Some("The Matrix"),
        !.release_date = Some("1999-03-31"), !.original_language = Some("en"),
        !.genre_ids = Some(Some(<<28>>)), !.media_type = Some("movie"),
        !.overview = Some("A hacker."),
        !.poster_path = Some("/p1.jpg"), !.popularity = Some(90),
        !.vote_average = Some(8)]

ItemDark ==
    [EmptyItem EXCEPT !.id = Some(2), !.name = Some("Dark"),
        !.first_air_date = Some("2017-12-01"), !.original_language = Some("en"),
        !.genre_ids = Some(Some(<<18>>)), !.media_type = Some("tv"),
        !.backdrop_path = Some("/b1.jpg")]

ItemFrench ==
    [EmptyItem EXCEPT !.id = Some(2), !.title = Some("Les Revenants"),
        !.name = Some("Les Revenants"), !.release_date = Some("2004-10-27"),
        !.first_air_date = Some("2012-11-26"), !.original_language = Some("fr"),
        !.genre_ids = Some(Some(<<18>>)), !.media_type = Some("tv")]

\* an item whose genre_ids is JSON null
ItemNullGenres ==
    [EmptyItem EXCEPT !.id = Some(1), !.title = Some("Heat"), !.name = Some("Heat"),
        !.release_date = Some("1995-12-15"), !.first_air_date = Some("1995-12-15"),
        !.original_language = Some("en"), !.genre_ids = Some(None),
        !.media_type = Some("movie")]

SeerItems == {ItemMatrix, ItemDark, ItemFrench, ItemNullGenres}

SeerContentTypes == {"trending", "popular_movies", "popular_tv", "discover"}

SeerConfig(content_type, max_items, filters, tmdb_api_key) ==
    [content_type |-> content_type, max_items |-> max_items, filters |-> filters,
     tmdb_api_key |-> tmdb_api_key]

\* the configurations of the Seer sensor: the trending feed with every
\* max_items, and, with the largest max_items, every content type and the
\* trending feed with user filters or without key
SeerConfigs ==
    {SeerConfig("trending", m, DefaultFilters, "key") : m \in 0..MaxMaxItems}
    \cup {SeerConfig(c, MaxMaxItems, DefaultFilters, "key") : c \in SeerContentTypes}
    \cup {SeerConfig("trending", MaxMaxItems,
                     Filters(2000, FALSE, <<>>, FALSE, TRUE), "key"),
          SeerConfig("trending", MaxMaxItems, DefaultFilters, "")}

BodyMatrix ==
    DetailsBody(Some("The Matrix"), Some("The Matrix"),
                Some("A computer hacker learns the truth."),
                Some("1999-03-31"), Some("1999-03-31"))

BodyBare == DetailsBody(Some("Dark"), None, None, None, Some("2017"))

\* the catalog's details body of an identifier
CatalogBody(tmdb_id) == IF tmdb_id = "1" THEN BodyMatrix ELSE BodyBare

\* the answers to the details request of an identifier
DetailsResps(tmdb_id) ==
    {Resp(TRUE, 0, EmptyDetailsBody), Resp(FALSE, 404, EmptyDetailsBody),
     Resp(FALSE, 500, EmptyDetailsBody), Resp(FALSE, 200, EmptyDetailsBody),
     Resp(FALSE, 200, CatalogBody(tmdb_id))}

ImagesPosterOnly == ImagesBody(Some(<<Poster(Some("/p1.jpg"))>>), None)

ImagesFull ==
    ImagesBody(Some(<<Poster(Some("/p1.jpg")), Poster(Some("/p2.jpg"))>>),
               Some(<<Backdrop(Some("/b1.jpg"), Some(1)),
                      Backdrop(Some("/b2.jpg"), Some(7)),
                      Backdrop(Some("/b3.jpg"), None)>>))

\* the answers to an images request
ImagesResps ==
    {Resp(TRUE, 0, EmptyImagesBody), Resp(FALSE, 404, EmptyImagesBody),
     Resp(FALSE, 200, ImagesFull)}

\* the broker's request list: the tmdbId of each request's media (0: none)
RequestsResps ==
    {Resp(TRUE, 0, <<>>), Resp(FALSE, 500, <<>>), Resp(FALSE, 200, <<>>),
     Resp(FALSE, 200, <<1, 0>>)}

\* the broker's discover list: a 200 body holds a results list, or a
\* results value that is not a list (malformed)
ListBody(malformed, results) == [malformed |-> malformed, results |-> results]

\* the answers to a list fetch that hold at most n items
SeerListResps(n) ==
    {Resp(TRUE, 0, ListBody(FALSE, <<>>)), Resp(FALSE, 500, ListBody(FALSE, <<>>)),
     Resp(FALSE, 200, ListBody(TRUE, <<>>))}
    \cup {Resp(FALSE, 200, ListBody(FALSE, l)) : l \in SeqUpTo(SeerItems, n)}

(***************************************************************************)
(* State.                                                                  *)
(***************************************************************************)
VARIABLES
    seer_cfg,        \* Seer: content_type, max_items, filters, tmdb_api_key
    seer_state,      \* Seer: self._state
    seer_data,       \* Seer: self._attributes['data']
    seer_available,  \* Seer: self._available
    seer_cache,      \* Seer: self._cache, a function from cache keys to values
    seer_pc,         \* Seer: "idle", "list" (awaiting _fetch_media_list),
                     \*       "gather" (awaiting asyncio.gather)
    seer_todo,       \* Seer: the media_type arguments of the list fetches to come
    seer_requested,  \* Seer: requested_ids of the running cycle
    seer_all_items,  \* Seer: all_items of the running cycle
    seer_tasks,      \* Seer: the process_item tasks of the running or last gather
    seer_sources,    \* Seer: the item and media_type of every task of the
                     \*       running or last cycle that returned a record
    seer_outcome,    \* Seer: how the last cycle ended: "none", "ok", "error"
    seer_fetched,    \* Seer: the number of upstream items delivered so far
    seer_before,     \* Seer: the data that was published when the last cycle started
    seer_got_list,   \* Seer: whether a list fetch of the running or last cycle
                     \*       returned a body
    seer_details_fetches, \* Seer: for every details cache key, the number of
                     \*       requests _get_tmdb_details has issued for it
    plex_cfg,        \* Plex: sections, max_items, tmdb_api_key, language
    plex_state,      \* Plex: self._state
    plex_data,       \* Plex: self._attributes['data']
    plex_available,  \* Plex: self._available
    plex_cache,      \* Plex: self._cache
    plex_current_item_ids, \* Plex: self._current_item_ids
    plex_files,      \* Plex: the plex_*.jpg files of the image cache directory
    plex_pc,         \* Plex: "idle", "section" (awaiting _fetch_recently_added),
                     \*       "items" (awaiting _process_item)
    plex_section,    \* Plex: the position in sections of the running loop
    plex_videos,     \* Plex: the Video elements of the section still to process
    plex_recently_added, \* Plex: recently_added of the running cycle
    plex_show_episodes,  \* Plex: show_episodes of the running cycle, in
                         \*       insertion order
    plex_resolved,   \* Plex: every item processed in the running or last cycle
                     \*       with its identifier, how it was found (via "guid",
                     \*       "search" or "none") and whether it gave a record
    plex_outcome,    \* Plex: how the last cycle ended: "none", "ok", "error"
    plex_fetched,    \* Plex: the number of upstream items delivered so far
    plex_before,     \* Plex: the data that was published when the last cycle started
    plex_got_list,   \* Plex: whether a section fetch of the running or last
                     \*       cycle returned its Video elements
    tmdb_cfg,        \* TMDB: endpoint, max_items, filters, and library: the
                     \*       data of the library sensors in hass.states
    tmdb_state,      \* TMDB: self._state
    tmdb_data,       \* TMDB: self._attributes['data']
    tmdb_available,  \* TMDB: self._available
    tmdb_library_tmdb_ids,   \* TMDB: self._library_tmdb_ids
    tmdb_library_age,        \* TMDB: time.time() - self._last_library_fetch
                             \*       when the last cycle had started, in
                             \*       seconds, capped at MaxAge
    tmdb_pc,         \* TMDB: "idle", "fetch" (awaiting session.get)
    tmdb_todo,       \* TMDB: the endpoints of the fetches to come
    tmdb_results,    \* TMDB: results of the running cycle
    tmdb_upstream,   \* TMDB: the upstream items of the running cycle, in order
    tmdb_outcome,    \* TMDB: how the last cycle ended: "none", "ok", "error"
    tmdb_cause,      \* TMDB: what raised in the last cycle: "none", "fetch"
                     \*       (status or transport), "item"
    tmdb_fetched,    \* TMDB: the number of upstream items delivered so far
    tmdb_before,     \* TMDB: the data that was published when the last cycle started
    sensor           \* the sensor the behaviour follows

tmdb_vars ==
    <<tmdb_cfg, tmdb_state, tmdb_data, tmdb_available, tmdb_library_tmdb_ids,
      tmdb_library_age, tmdb_pc, tmdb_todo, tmdb_results,
      tmdb_upstream, tmdb_outcome, tmdb_cause, tmdb_fetched, tmdb_before>>

plex_vars ==
    <<plex_cfg, plex_state, plex_data, plex_available, plex_cache,
      plex_current_item_ids, plex_files, plex_pc, plex_section, plex_videos,
      plex_recently_added, plex_show_episodes, plex_resolved, plex_outcome,
      plex_fetched, plex_before, plex_got_list>>

seer_vars ==
    <<seer_cfg, seer_state, seer_data, seer_available, seer_cache, seer_pc,
      seer_todo, seer_requested, seer_all_items, seer_tasks, seer_sources,
      seer_outcome, seer_fetched, seer_before, seer_got_list,
      seer_details_fetches>>

(***************************************************************************)
(* SeerDiscoveryMediarrSensor: the enrichment of one item (process_item).  *)
(* A task is suspended at its details request (pc "details"), at its       *)
(* images request (pc "images"), or has returned (pc "done"): result is    *)
(* the record or None, raised tells that the except clause was taken.      *)
(***************************************************************************)
Task(item, media_type, tmdb_id, pc, details, result, raised) ==
    [item |-> item, media_type |-> media_type, tmdb_id |-> tmdb_id, pc |-> pc,
     details |-> details, result |-> result, raised |-> raised]

\* lines 214-225: the record of an enriched item
SeerRecord(tmdb_id, media_type, details, images) ==
    [title |-> details.title,
     overview |-> IF details.overview # "" THEN StrTake(details.overview, 100) \o "..."
                  ELSE "No overview available",
     year |-> details.year,
     poster |-> OrEmpty(images[1]),
     fanart |-> IF Truthy(images[3]) THEN images[3][1] ELSE OrEmpty(images[2]),
     banner |-> OrEmpty(images[2]),
     release |-> details.year,
     type |-> IF media_type = "movie" THEN "Movie" ELSE "TV Show",
     flag |-> 1,
     id |-> tmdb_id]

\* lines 211-225, entered with the details: the images come from the cache,
\* or from no request at all without an API key, or the task is suspended
SeerAfterDetails(task, details, cache, api_key) ==
    LET key == ImagesKey(task.media_type, task.tmdb_id)
    IN  IF key \in DOMAIN cache
        THEN [task EXCEPT !.pc = "done", !.details = Some(details),
                 !.result = Some(SeerRecord(task.tmdb_id, task.media_type,
                                            details, cache[key]))]
        ELSE IF ~FetchIssuesRequest(api_key)
        THEN [task EXCEPT !.pc = "done", !.details = Some(details),
                 !.result = Some(SeerRecord(task.tmdb_id, task.media_type,
                                            details, NoImages))]
        ELSE [task EXCEPT !.pc = "images", !.details = Some(details)]

\* SeerStartTask without the test of line 194
SeerStartTaskNoRequested(item, media_type, requested_ids, filters, cache, api_key) ==
    LET tmdb_id == Str(item.id)
        task == Task(item, media_type, tmdb_id, "done", None, None, FALSE)
        key == DetailsKey(media_type, tmdb_id, "en")
    IN  IF tmdb_id = "" THEN task
        ELSE IF SeerFilterRaises(filters, item, media_type)
        THEN [task EXCEPT !.raised = TRUE]
        ELSE IF ~SeerShouldIncludeItem(filters, item, media_type) THEN task
        ELSE IF key \in DOMAIN cache
        THEN SeerAfterDetails(task, cache[key], cache, api_key)
        ELSE IF ~FetchIssuesRequest(api_key) THEN task
        ELSE [task EXCEPT !.pc = "details"]

\* lines 188-209: process_item up to its first suspension
SeerStartTask(item, media_type, requested_ids, filters, cache, api_key) ==
    LET tmdb_id == Str(item.id)
        task == Task(item, media_type, tmdb_id, "done", None, None, FALSE)
        key == DetailsKey(media_type, tmdb_id, "en")
    IN  IF tmdb_id = "" THEN task
        ELSE IF tmdb_id \in requested_ids THEN task
        ELSE IF SeerFilterRaises(filters, item, media_type)
        THEN [task EXCEPT !.raised = TRUE]
        ELSE IF ~SeerShouldIncludeItem(filters, item, media_type) THEN task
        ELSE IF key \in DOMAIN cache
        THEN SeerAfterDetails(task, cache[key], cache, api_key)
        ELSE IF ~FetchIssuesRequest(api_key) THEN task
        ELSE [task EXCEPT !.pc = "details"]

\* _fetch_all_requests: the set of str(tmdbId) of a 200 answer, else set()
RequestedIds(resp) ==
    IF resp.exc \/ resp.status # 200 THEN {}
    ELSE {ToString(resp.body[i]) : i \in {j \in 1..Len(resp.body) : resp.body[j] # 0}}

\* _fetch_media_list: the optional body of the list answer
FetchMediaList(resp) ==
    IF resp.exc \/ resp.status # 200 THEN None ELSE Some(resp.body)

\* the media_type of the items of a list fetch (lines 278 and 296)
SeerMediaType(content_type, arg) ==
    IF content_type = "discover"
    THEN (IF arg = "movies" THEN "movie" ELSE "tv")
    ELSE (IF content_type = "popular_movies" THEN "movie" ELSE "tv")

SeerPlaceholder ==
    [title_default |-> "$title", line1_default |-> "$type",
     line2_default |-> "$overview", line3_default |-> "$year",
     icon |-> "mdi:movie-search"]

\* SeerFinalItems without the slice of line 303
SeerFinalItemsUncut(all_items, max_items) ==
    IF all_items = <<>> THEN <<SeerPlaceholder>> ELSE all_items

\* lines 302-318: the published list of a cycle that reaches its end
SeerFinalItems(all_items, max_items) ==
    LET cut == Take(all_items, max_items)
    IN  IF cut = <<>> THEN <<SeerPlaceholder>> ELSE cut

(***************************************************************************)
(* SeerDiscoveryMediarrSensor.async_update, one action per resumption.     *)
(***************************************************************************)
\* dict[key] = value
Put(cache, key, value) ==
    [k \in (DOMAIN cache) \cup {key} |-> IF k = key THEN value ELSE cache[k]]

\* MediarrSensor.__init__, which the sources do not hold: before its first
\* cycle a sensor shows state 0, no data and available True
MediarrSensorInit(state, data, available) ==
    /\ state = 0
    /\ data = <<>>
    /\ available = TRUE

\* __init__ of the Seer sensor and of TMDBMediaSensor (available, cache)
SeerInit ==
    /\ seer_cfg \in SeerConfigs
    /\ MediarrSensorInit(seer_state, seer_data, seer_available)
    /\ seer_cache = <<>>
    /\ seer_pc = "idle"
    /\ seer_todo = <<>>
    /\ seer_requested = {}
    /\ seer_all_items = <<>>
    /\ seer_tasks = <<>>
    /\ seer_sources = {}
    /\ seer_outcome = "none"
    /\ seer_fetched = 0
    /\ seer_before = <<>>
    /\ seer_got_list = FALSE
    /\ seer_details_fetches = <<>>

\* lines 302-318: the cycle reaches its end
SeerPublish(all_items) ==
    LET final == SeerFinalItems(all_items, seer_cfg.max_items)
    IN  /\ seer_state' = Len(final)
        /\ seer_data' = final
        /\ seer_available' = TRUE
        /\ seer_outcome' = "ok"
        /\ seer_pc' = "idle"

\* SeerFail when the handler only marks the sensor unavailable
SeerFailStale ==
    /\ seer_available' = FALSE
    /\ seer_outcome' = "error"
    /\ seer_pc' = "idle"
    /\ UNCHANGED <<seer_state, seer_data>>

\* lines 320-324: an exception reaches the handler of the cycle
SeerFail ==
    /\ seer_state' = 0
    /\ seer_data' = <<>>
    /\ seer_available' = FALSE
    /\ seer_outcome' = "error"
    /\ seer_pc' = "idle"

\* the cycle after the items of one list were added to all_items
SeerAfterList(all_items, todo) ==
    /\ seer_all_items' = all_items
    /\ seer_todo' = todo
    /\ IF todo = <<>> THEN SeerPublish(all_items)
       ELSE /\ seer_pc' = "list"
            /\ UNCHANGED <<seer_state, seer_data, seer_available, seer_outcome>>

\* lines 254-265 or 286: the cycle starts, the request list is answered and
\* the first list fetch is issued
SeerBeginCycle(resp) ==
    /\ seer_pc = "idle"
    /\ seer_before' = seer_data
    /\ seer_got_list' = FALSE
    /\ seer_requested' = RequestedIds(resp)
    /\ seer_all_items' = <<>>
    /\ seer_todo' = IF seer_cfg.content_type = "discover" THEN <<"movies", "tv">>
                    ELSE <<"">>
    /\ seer_pc' = "list"
    /\ seer_tasks' = <<>>
    /\ seer_sources' = {}
    /\ UNCHANGED <<seer_cfg, seer_state, seer_data, seer_available, seer_cache,
                   seer_outcome, seer_fetched, seer_details_fetches>>

\* lines 260-266 of _get_tmdb_details: every task that is suspended at its
\* details request has issued one request for its cache key
RECURSIVE DetailsIssued(_, _, _)
DetailsIssued(fetches, tasks, i) ==
    IF i > Len(tasks) THEN fetches
    ELSE IF tasks[i].pc # "details" THEN DetailsIssued(fetches, tasks, i + 1)
    ELSE LET key == DetailsKey(tasks[i].media_type, tasks[i].tmdb_id, "en")
         IN  DetailsIssued(Put(fetches, key,
                               IF key \in DOMAIN fetches THEN fetches[key] + 1
                               ELSE 1),
                           tasks, i + 1)

\* the tasks of one gather, each run up to its first suspension
SeerStartTasks(results, media_type) ==
    [i \in 1..Len(results) |->
        SeerStartTask(results[i], media_type, seer_requested, seer_cfg.filters,
                      seer_cache, seer_cfg.tmdb_api_key)]

\* the list answer starts the given tasks
SeerStarted(tasks) ==
    /\ seer_tasks' = tasks
    /\ seer_details_fetches' = DetailsIssued(seer_details_fetches, tasks, 1)

\* lines 265-282 or 286-300 with lines 176-233: a list fetch is answered and
\* _process_media_items starts one task per item
SeerListResp(resp) ==
    /\ seer_pc = "list"
    /\ seer_fetched' = seer_fetched + Len(resp.body.results)
    /\ seer_got_list' = (seer_got_list \/ FetchMediaList(resp) # None)
    /\ LET data == FetchMediaList(resp)
           media_type == SeerMediaType(seer_cfg.content_type, Head(seer_todo))
       IN  IF data # None /\ data[1].malformed
           THEN /\ SeerFail
                /\ UNCHANGED <<seer_all_items, seer_todo, seer_tasks, seer_sources,
                               seer_details_fetches>>
           ELSE IF data = None \/ data[1].results = <<>>
           THEN /\ SeerAfterList(seer_all_items, Tail(seer_todo))
                /\ UNCHANGED <<seer_tasks, seer_sources, seer_details_fetches>>
           ELSE /\ SeerStarted(SeerStartTasks(data[1].results, media_type))
                /\ seer_pc' = "gather"
                /\ seer_todo' = Tail(seer_todo)
                /\ UNCHANGED <<seer_all_items, seer_sources, seer_state, seer_data,
                               seer_available, seer_outcome>>
    /\ UNCHANGED <<seer_cfg, seer_cache, seer_requested, seer_before>>

\* lines 205-209 with _get_tmdb_details lines 266-277: the details request
\* of task i is answered
SeerDetailsResp(i, resp) ==
    /\ seer_pc = "gather"
    /\ i \in 1..Len(seer_tasks)
    /\ seer_tasks[i].pc = "details"
    /\ LET task == seer_tasks[i]
           data == FetchTmdbData(seer_cfg.tmdb_api_key, resp)
           details == DetailsOfData(data, task.media_type)
           cache == Put(seer_cache, DetailsKey(task.media_type, task.tmdb_id, "en"),
                        details[1])
       IN  IF details = None
           THEN /\ seer_tasks' = [seer_tasks EXCEPT ![i].pc = "done"]
                /\ UNCHANGED seer_cache
           ELSE /\ seer_cache' = cache
                /\ seer_tasks' = [seer_tasks EXCEPT ![i] =
                       SeerAfterDetails(task, details[1], cache,
                                        seer_cfg.tmdb_api_key)]
    /\ UNCHANGED <<seer_cfg, seer_state, seer_data, seer_available, seer_pc,
                   seer_todo, seer_requested, seer_all_items, seer_sources,
                   seer_outcome, seer_fetched, seer_before, seer_got_list,
                   seer_details_fetches>>

\* SeerImagesResp when a task without images returns None
SeerImagesRespDropping(i, resp) ==
    /\ seer_pc = "gather"
    /\ i \in 1..Len(seer_tasks)
    /\ seer_tasks[i].pc = "images"
    /\ LET task == seer_tasks[i]
           data == FetchTmdbData(seer_cfg.tmdb_api_key, resp)
           images == ImagesOfFetch(data)
       IN  /\ seer_cache' = IF ImagesCached(data)
                            THEN Put(seer_cache,
                                     ImagesKey(task.media_type, task.tmdb_id), images)
                            ELSE seer_cache
           /\ seer_tasks' = [seer_tasks EXCEPT ![i].pc = "done",
                  ![i].result = IF ImagesCached(data)
                                THEN Some(SeerRecord(task.tmdb_id, task.media_type,
                                                     task.details[1], images))
                                ELSE None]
    /\ UNCHANGED <<seer_cfg, seer_state, seer_data, seer_available, seer_pc,
                   seer_todo, seer_requested, seer_all_items, seer_sources,
                   seer_outcome, seer_fetched, seer_before, seer_got_list,
                   seer_details_fetches>>

\* lines 211-225 with _get_tmdb_images lines 176-217: the images request of
\* task i is answered
SeerImagesResp(i, resp) ==
    /\ seer_pc = "gather"
    /\ i \in 1..Len(seer_tasks)
    /\ seer_tasks[i].pc = "images"
    /\ LET task == seer_tasks[i]
           data == FetchTmdbData(seer_cfg.tmdb_api_key, resp)
           images == ImagesOfFetch(data)
       IN  /\ seer_cache' = IF ImagesCached(data)
                            THEN Put(seer_cache,
                                     ImagesKey(task.media_type, task.tmdb_id), images)
                            ELSE seer_cache
           /\ seer_tasks' = [seer_tasks EXCEPT ![i].pc = "done",
                  ![i].result = Some(SeerRecord(task.tmdb_id, task.media_type,
                                                task.details[1], images))]
    /\ UNCHANGED <<seer_cfg, seer_state, seer_data, seer_available, seer_pc,
                   seer_todo, seer_requested, seer_all_items, seer_sources,
                   seer_outcome, seer_fetched, seer_before, seer_got_list,
                   seer_details_fetches>>

\* SeerGatherResults when the first task that raises ends the gather: the
\* records of the tasks before it
SeerGatherResultsUntilRaise(tasks) ==
    LET stop == IF \E i \in 1..Len(tasks) : tasks[i].raised
                THEN CHOOSE i \in 1..Len(tasks) :
                         /\ tasks[i].raised
                         /\ \A j \in 1..(i - 1) : ~tasks[j].raised
                ELSE Len(tasks) + 1
        kept == SelectIdx(tasks, {i \in 1..(stop - 1) : tasks[i].result # None}, 1)
    IN  [i \in 1..Len(kept) |-> kept[i].result[1]]

\* the records in an order of completion: the last task first
SeerGatherResultsAsCompleted(tasks) ==
    LET kept == SelectIdx(tasks, {i \in 1..Len(tasks) : tasks[i].result # None}, 1)
    IN  [i \in 1..Len(kept) |-> kept[Len(kept) + 1 - i].result[1]]

\* lines 233-250: the results of asyncio.gather(*tasks, return_exceptions=True)
\* in task order, without the None of the dropped items
SeerGatherResults(tasks) ==
    LET kept == SelectIdx(tasks, {i \in 1..Len(tasks) : tasks[i].result # None}, 1)
    IN  [i \in 1..Len(kept) |-> kept[i].result[1]]

\* the gather returns once every task has returned
SeerGatherDone(tasks) == \A i \in 1..Len(tasks) : tasks[i].pc = "done"

\* lines 233-250 and 282 or 300: the join, then the next list or the end
SeerJoin ==
    /\ seer_pc = "gather"
    /\ SeerGatherDone(seer_tasks)
    /\ seer_sources' = seer_sources \cup
           {[item |-> seer_tasks[i].item, media_type |-> seer_tasks[i].media_type] :
                i \in {j \in 1..Len(seer_tasks) : seer_tasks[j].result # None}}
    /\ SeerAfterList(seer_all_items \o SeerGatherResults(seer_tasks), seer_todo)
    /\ UNCHANGED <<seer_cfg, seer_cache, seer_requested, seer_tasks, seer_fetched,
                   seer_before, seer_got_list, seer_details_fetches>>

SeerNext ==
    \/ \E resp \in RequestsResps : SeerBeginCycle(resp)
    \/ \E resp \in SeerListResps(MaxUpstream - seer_fetched) : SeerListResp(resp)
    \/ \E i \in 1..Len(seer_tasks) :
           \E resp \in DetailsResps(seer_tasks[i].tmdb_id) : SeerDetailsResp(i, resp)
    \/ \E i \in 1..Len(seer_tasks), resp \in ImagesResps : SeerImagesResp(i, resp)
    \/ SeerJoin

(***************************************************************************)
(* PlexMediarrSensor: the title variants of _enhanced_tmdb_search.         *)
(***************************************************************************)
\* the characters \s matches among those of the titles
IsSpace(c) == c = " "

\* str.strip()
RECURSIVE LStrip(_)
LStrip(s) == IF s # "" /\ IsSpace(Head(s)) THEN LStrip(Tail(s)) ELSE s

RECURSIVE RStrip(_)
RStrip(s) ==
    IF s # "" /\ IsSpace(SubSeq(s, Len(s), Len(s)))
    THEN RStrip(SubSeq(s, 1, Len(s) - 1)) ELSE s

Strip(s) == LStrip(RStrip(s))

\* the number of whitespace characters of s from position i on
RECURSIVE SpacesFrom(_, _)
SpacesFrom(s, i) ==
    IF i <= Len(s) /\ IsSpace(SubSeq(s, i, i)) THEN 1 + SpacesFrom(s, i + 1) ELSE 0

\* re.sub(r'\s*\(\d{4}\)\s*$', '', title): a trailing "(dddd)" with the
\* whitespace around it is removed
SubTrailingYear(title) ==
    LET t == RStrip(title)
        n == Len(t)
    IN  IF /\ n >= 6
           /\ SubSeq(t, n - 5, n - 5) = "("
           /\ SubSeq(t, n, n) = ")"
           /\ \A k \in (n - 4)..(n - 1) : IsDigit(SubSeq(t, k, k))
        THEN RStrip(SubSeq(t, 1, n - 6))
        ELSE title

\* the position of the first ")" of s at or after position i, 0 if none
RECURSIVE FindClose(_, _)
FindClose(s, i) ==
    IF i > Len(s) THEN 0
    ELSE IF SubSeq(s, i, i) = ")" THEN i
    ELSE FindClose(s, i + 1)

\* re.sub(r'\s*\([^)]*\)\s*', ' ', title) from position i on: every "(...)"
\* with the whitespace around it becomes ' '
RECURSIVE SubParensFrom(_, _)
SubParensFrom(s, i) ==
    LET open == i + SpacesFrom(s, i)
        close == FindClose(s, open + 1)
    IN  IF i > Len(s) THEN ""
        ELSE IF open <= Len(s) /\ SubSeq(s, open, open) = "(" /\ close # 0
        THEN " " \o SubParensFrom(s, close + 1 + SpacesFrom(s, close + 1))
        ELSE SubSeq(s, i, i) \o SubParensFrom(s, i + 1)

SubParens(title) == SubParensFrom(title, 1)

\* the title variants lines 75-99 search for, in order
TitleVariants(title) ==
    LET title_no_year == Strip(SubTrailingYear(title))
        title_no_parens == Strip(SubParens(title))
        first_part == Strip(BeforeFirst(title, ":"))
    IN  <<title>>
        \o (IF title_no_year # title THEN <<title_no_year>> ELSE <<>>)
        \o (IF title_no_parens # title /\ title_no_parens # title_no_year
            THEN <<title_no_parens>> ELSE <<>>)
        \o (IF Contains(title, ":") /\ Len(first_part) > 3 THEN <<first_part>>
            ELSE <<>>)

(***************************************************************************)
(* Dates and numbers of the Plex records.                                  *)
(***************************************************************************)
\* the text after the first occurrence of sep, which s contains
AfterFirst(s, sep) ==
    SubSeq(s, Len(BeforeFirst(s, sep)) + Len(sep) + 1, Len(s))

\* f"{n:02d}" for n >= 0
Pad2(n) == IF n < 10 THEN "0" \o ToString(n) ELSE ToString(n)

\* f"{n:04d}" for n >= 0
Pad4(n) ==
    IF n < 10 THEN "000" \o ToString(n)
    ELSE IF n < 100 THEN "00" \o ToString(n)
    ELSE IF n < 1000 THEN "0" \o ToString(n)
    ELSE ToString(n)

IsLeap(y) == (y % 4 = 0 /\ y % 100 # 0) \/ y % 400 = 0

DaysInMonth(y, m) ==
    IF m = 2 THEN (IF IsLeap(y) THEN 29 ELSE 28)
    ELSE IF m \in {4, 6, 9, 11} THEN 30 ELSE 31

\* datetime.fromtimestamp(ts).strftime("%Y-%m-%d") for ts >= 0, in UTC
DateOfTimestamp(ts) ==
    LET z == (ts \div 86400) + 719468
        era == z \div 146097
        doe == z - era * 146097
        yoe == (doe - (doe \div 1460) + (doe \div 36524) - (doe \div 146096)) \div 365
        doy == doe - (365 * yoe + (yoe \div 4) - (yoe \div 100))
        mp == (5 * doy + 2) \div 153
        d == doy - ((153 * mp + 2) \div 5) + 1
        m == IF mp < 10 THEN mp + 3 ELSE mp - 9
        y == yoe + era * 400 + (IF m <= 2 THEN 1 ELSE 0)
    IN  Pad4(y) \o "-" \o Pad2(m) \o "-" \o Pad2(d)

\* _format_added_date: '' for a falsy or malformed timestamp
FormatAddedDate(timestamp) ==
    IF timestamp # "" /\ IntParses(timestamp) THEN DateOfTimestamp(IntOf(timestamp))
    ELSE ""

\* whether datetime.strptime(s, '%Y-%m-%d') succeeds
IsYmd(s) ==
    /\ Contains(s, "-")
    /\ Contains(AfterFirst(s, "-"), "-")
    /\ LET y == BeforeFirst(s, "-")
           m == BeforeFirst(AfterFirst(s, "-"), "-")
           d == AfterFirst(AfterFirst(s, "-"), "-")
       IN  /\ Len(y) = 4 /\ IntParses(y) /\ IntOf(y) >= 1
           /\ Len(m) \in {1, 2} /\ IntParses(m) /\ IntOf(m) \in 1..12
           /\ Len(d) \in {1, 2} /\ IntParses(d)
           /\ IntOf(d) \in 1..DaysInMonth(IntOf(y), IntOf(m))

\* _format_date
FormatDate(date_str) ==
    IF date_str = "" \/ date_str = "Unknown" THEN "Unknown"
    ELSE LET clean == Strip(BeforeFirst(BeforeFirst(date_str, "T"), "."))
         IN  IF IsYmd(clean) THEN clean ELSE "Unknown"

(***************************************************************************)
(* TMDBMediaSensor._search_tmdb and PlexMediarrSensor._enhanced_tmdb_search.*)
(* A search body holds the list of the identifiers of its results.  Each   *)
(* operator returns the value of the call, the cache after it and the      *)
(* number of requests it issued; resps are the answers to its requests.    *)
(***************************************************************************)
SearchBody(results) == [results |-> results]

Called(value, cache, calls) == [value |-> value, cache |-> cache, calls |-> calls]

\* _search_tmdb taking the last result of the answer
SearchTmdbLastResult(title, year, media_type, language, cache, api_key, resp) ==
    LET key == SearchKey(media_type, title, year, language)
        data == FetchTmdbData(api_key, resp)
    IN  IF title = "" THEN Called(None, cache, 0)
        ELSE IF key \in DOMAIN cache THEN Called(Some(cache[key]), cache, 0)
        ELSE IF data # None /\ data[1].results # <<>>
        THEN Called(Some(data[1].results[Len(data[1].results)]),
                    Put(cache, key, data[1].results[Len(data[1].results)]),
                    IF FetchIssuesRequest(api_key) THEN 1 ELSE 0)
        ELSE Called(None, cache, IF FetchIssuesRequest(api_key) THEN 1 ELSE 0)

\* _search_tmdb: year is the text of f"{year}", resp the answer if it fetches
SearchTmdb(title, year, media_type, language, cache, api_key, resp) ==
    LET key == SearchKey(media_type, title, year, language)
        data == FetchTmdbData(api_key, resp)
    IN  IF title = "" THEN Called(None, cache, 0)
        ELSE IF key \in DOMAIN cache THEN Called(Some(cache[key]), cache, 0)
        ELSE IF data # None /\ data[1].results # <<>>
        THEN Called(Some(data[1].results[1]),
                    Put(cache, key, data[1].results[1]),
                    IF FetchIssuesRequest(api_key) THEN 1 ELSE 0)
        ELSE Called(None, cache, IF FetchIssuesRequest(api_key) THEN 1 ELSE 0)

\* the call of a search followed by the calls of the later searches
SearchThen(one, rest) == Called(rest.value, rest.cache, one.calls + rest.calls)

\* lines 75-101 from variant k on: the first truthy identifier wins; one is
\* the search of variant k
RECURSIVE EnhancedSearchFrom(_, _, _, _, _, _, _, _)
EnhancedSearchAfter(variants, k, year, media_type, language, api_key, resps, one) ==
    IF one.value # None /\ one.value[1] # 0 THEN one
    ELSE SearchThen(one, EnhancedSearchFrom(variants, k + 1, year, media_type,
                                            language, one.cache, api_key, resps))

EnhancedSearchFrom(variants, k, year, media_type, language, cache, api_key, resps) ==
    IF k > Len(variants) THEN Called(None, cache, 0)
    ELSE EnhancedSearchAfter(variants, k, year, media_type, language, api_key, resps,
                             SearchTmdb(variants[k], year, media_type, language,
                                        cache, api_key, resps[k]))

\* _enhanced_tmdb_search: variants are the title variants of the title
EnhancedTmdbSearch(variants, year, media_type, language, cache, api_key, resps) ==
    EnhancedSearchFrom(variants, 1, year, media_type, language, cache, api_key, resps)

\* lines 215-217: the images of a fetched body are stored and returned
StoreImages(cache, key, images) == Called(images, Put(cache, key, images), 1)

\* _get_tmdb_images: the tuple of the call and the cache after it
GetTmdbImages(tmdb_id, media_type, cache, api_key, resp) ==
    LET key == ImagesKey(media_type, tmdb_id)
        data == FetchTmdbData(api_key, resp)
    IN  IF tmdb_id = "" THEN Called(NoImages, cache, 0)
        ELSE IF key \in DOMAIN cache THEN Called(cache[key], cache, 0)
        ELSE IF ImagesCached(data) THEN StoreImages(cache, key, ImagesOfData(data[1]))
        ELSE Called(NoImages, cache, IF FetchIssuesRequest(api_key) THEN 1 ELSE 0)

(***************************************************************************)
(* PlexMediarrSensor: the Video elements and _process_item.                *)
(***************************************************************************)
\* a Video element: its attributes (absent: None), the id attributes of its
\* Guid children and the tag attributes of its Genre children
BaseVideo ==
    [type |-> None, ratingKey |-> None, addedAt |-> None, title |-> None,
     grandparentTitle |-> None, year |-> None, parentIndex |-> None,
     index |-> None, duration |-> None, originallyAvailableAt |-> None,
     summary |-> None, thumb |-> None, art |-> None, grandparentThumb |-> None,
     grandparentArt |-> None, guids |-> <<>>, genres |-> <<>>]

\* lines 224-229 and 272-277: the identifier of the first themoviedb Guid
RECURSIVE GuidTmdbId(_)
GuidTmdbId(guids) ==
    IF guids = <<>> THEN None
    ELSE IF Contains(Head(guids), "themoviedb://")
    THEN Some(BeforeFirst(AfterFirst(Head(guids), "themoviedb://"), "?"))
    ELSE GuidTmdbId(Tail(guids))

\* ', '.join(tags)
RECURSIVE JoinComma(_)
JoinComma(tags) ==
    IF tags = <<>> THEN ""
    ELSE IF Len(tags) = 1 THEN tags[1]
    ELSE tags[1] \o ", " \o JoinComma(Tail(tags))

\* the name of a cached image file and the item id _clean_unused_images
\* reads back from it
ImageFile(item_id, image_type) == "plex_" \o item_id \o "_" \o image_type \o ".jpg"

ImageFileItemId(file) == BeforeFirst(AfterFirst(file, "_"), "_")

\* _download_and_cache_image: the path, and the file written, on status 200
ImagePath(item_id, image_type) == "/local/mediarr/cache/" \o ImageFile(item_id, image_type)

\* the answers _process_item consumes: searches[k] for the k-th title
\* variant, images for the catalog images, poster and backdrop tell whether
\* the download from Plex succeeds
PlexInput(searches, images, poster, backdrop) ==
    [searches |-> searches, images |-> images, poster |-> poster,
     backdrop |-> backdrop]

\* lines 224-236 and 272-284: the identifier of an item, how it was found
\* and the cache after the searches
Resolved(tmdb_id, via, cache) == [tmdb_id |-> tmdb_id, via |-> via, cache |-> cache]

ResolvedBySearch(search) ==
    IF search.value # None /\ search.value[1] # 0
    THEN Resolved(Some(ToString(search.value[1])), "search", search.cache)
    ELSE Resolved(None, "none", search.cache)

PlexResolve(item, guid_id, variants, cache, api_key, language, inp) ==
    IF Truthy(guid_id) THEN Resolved(guid_id, "guid", cache)
    ELSE ResolvedBySearch(
             EnhancedTmdbSearch(variants,
                                IF item.type = Some("episode") THEN "None"
                                ELSE Get(item.year, "None"),
                                IF item.type = Some("episode") THEN "tv" ELSE "movie",
                                language, cache, api_key, inp.searches))

\* lines 238-251 and 286-299: the images of a resolved item, tmdb being the
\* call of _get_tmdb_images, with the Plex images where the catalog has none
PlexImages(item, files, inp, resolved, tmdb) ==
    LET is_episode == item.type = Some("episode")
        item_id == Get(item.ratingKey, "")
        fallback == \E k \in 1..3 : ~Truthy(tmdb.value[k])
        thumb == IF is_episode THEN item.grandparentThumb ELSE item.thumb
        art == IF is_episode THEN item.grandparentArt ELSE item.art
        has_poster == fallback /\ Truthy(thumb) /\ inp.poster
        has_backdrop == fallback /\ Truthy(art) /\ inp.backdrop
        poster_of(own) == IF ~Truthy(own) /\ has_poster
                          THEN Some(ImagePath(item_id, "poster")) ELSE own
        backdrop_of(own) == IF ~Truthy(own) /\ has_backdrop
                            THEN Some(ImagePath(item_id, "backdrop")) ELSE own
    IN  [tmdb_id |-> resolved.tmdb_id,
         via |-> resolved.via,
         poster_url |-> poster_of(tmdb.value[1]),
         backdrop_url |-> backdrop_of(tmdb.value[2]),
         main_backdrop_url |-> backdrop_of(tmdb.value[3]),
         cache |-> tmdb.cache,
         files |-> files
                   \cup (IF has_poster THEN {ImageFile(item_id, "poster")} ELSE {})
                   \cup (IF has_backdrop THEN {ImageFile(item_id, "backdrop")}
                         ELSE {})]

PlexEnrichResolved(item, files, api_key, inp, resolved) ==
    CHOOSE enr \in
        {PlexImages(item, files, inp, resolved, tmdb) :
            tmdb \in {IF resolved.tmdb_id # None
                      THEN GetTmdbImages(resolved.tmdb_id[1],
                                         IF item.type = Some("episode") THEN "tv"
                                         ELSE "movie",
                                         resolved.cache, api_key, inp.images)
                      ELSE Called(NoImages, resolved.cache, 0)}} : TRUE

\* lines 207-214 and 219-251 or 268-299: the identifier and the images of an
\* item, with the cache and the image files after the calls
PlexEnrich(item, guid_id, variants, cache, files, api_key, language, inp) ==
    CHOOSE enr \in
        {PlexEnrichResolved(item, files, api_key, inp, resolved) :
            resolved \in {PlexResolve(item, guid_id, variants, cache, api_key,
                                      language, inp)}} : TRUE

\* int(item.get(key, 0)) raises ValueError on an attribute that is no number
IntAttrOk(attr) == attr = None \/ IntParses(attr[1])

IntAttr(attr) == IF attr = None THEN 0 ELSE IntOf(attr[1])

\* whether building the record of lines 253-266 or 301-318 raises
PlexRecordRaises(item) ==
    IF item.type = Some("episode")
    THEN ~IntAttrOk(item.parentIndex) \/ ~IntAttrOk(item.index)
         \/ ~IntAttrOk(item.duration)
    ELSE ~IntAttrOk(item.duration)

\* lines 253-266 and 301-318: the record of an item, before its images
PlexRecord(item) ==
    LET added_at == Get(item.addedAt, "0")
        summary == Get(item.summary, "N/A")
    IN  [title |-> IF item.type = Some("episode")
                   THEN StrTake(Get(item.grandparentTitle, ""), 100)
                   ELSE StrTake(Get(item.title, ""), 100),
         episode |-> IF item.type = Some("episode")
                     THEN StrTake(Get(item.title, ""), 100)
                     ELSE IF Len(summary) > 97 THEN StrTake(summary, 97) \o "..."
                     ELSE summary,
         release |-> FormatDate(Get(item.originallyAvailableAt, "")),
         added |-> FormatAddedDate(added_at),
         number |-> IF item.type = Some("episode")
                    THEN "S" \o Pad2(IntAttr(item.parentIndex))
                         \o "E" \o Pad2(IntAttr(item.index))
                    ELSE Get(item.year, ""),
         runtime |-> ToString(IntAttr(item.duration) \div 60000),
         genres |-> StrTake(JoinComma(item.genres), 50),
         poster |-> "",
         fanart |-> "",
         banner |-> "",
         flag |-> 1,
         added_at |-> added_at]

\* the poster, fanart and banner of lines 262-264 and 314-316
WithImages(rec, enr) ==
    [rec EXCEPT !.poster = OrEmpty(enr.poster_url),
                !.fanart = IF Truthy(enr.main_backdrop_url)
                           THEN enr.main_backdrop_url[1]
                           ELSE OrEmpty(enr.backdrop_url),
                !.banner = OrEmpty(enr.backdrop_url)]

\* the value _process_item returns for an enriched item: the optional
\* record (None when the except clause is taken) with the identifier, the
\* cache and the files after the calls
Processed(record, enr) ==
    [result |-> IF record = None THEN None ELSE Some(WithImages(record[1], enr)),
     tmdb_id |-> enr.tmdb_id, via |-> enr.via,
     cache |-> enr.cache, files |-> enr.files]

\* _process_item; static holds what the item alone determines: its Guid
\* identifier, its title variants and its record
PlexProcessItem(item, static, cache, files, api_key, language, inp) ==
    CHOOSE done \in
        {Processed(static.record, enr) :
            enr \in {PlexEnrich(item, static.guid_id, static.variants, cache, files,
                                api_key, language, inp)}} : TRUE

(***************************************************************************)
(* PlexMediarrSensor.async_update: the grouping of episodes, the sort and  *)
(* the publication.                                                        *)
(***************************************************************************)
\* str.startswith('S')
StartsWithS(s) == s # "" /\ Head(s) = "S"

\* the position of the show of a title in show_episodes, 0 if none
ShowIndex(show_episodes, title) ==
    IF \E k \in 1..Len(show_episodes) : show_episodes[k].rec.title = title
    THEN CHOOSE k \in 1..Len(show_episodes) : show_episodes[k].rec.title = title
    ELSE 0

\* line 348 raises ValueError when an added_at is no number
GroupRaises(show_episodes, rec) ==
    LET k == ShowIndex(show_episodes, rec.title)
    IN  /\ StartsWithS(rec.number)
        /\ k # 0
        /\ (~IntParses(rec.added_at) \/ ~IntParses(show_episodes[k].rec.added_at))

\* lines 340-351: show_episodes after an episode record; when line 348
\* raises, line 347 has appended the number
GroupEpisode(show_episodes, rec) ==
    LET k == ShowIndex(show_episodes, rec.title)
        old == show_episodes[k]
    IN  IF k = 0
        THEN Append(show_episodes, [rec |-> rec, episodes |-> <<rec.number>>])
        ELSE [show_episodes EXCEPT ![k] =
                 [rec |-> IF /\ ~GroupRaises(show_episodes, rec)
                             /\ IntOf(rec.added_at) > IntOf(old.rec.added_at)
                          THEN [old.rec EXCEPT !.added_at = rec.added_at,
                                               !.episode = rec.episode,
                                               !.number = rec.number]
                          ELSE old.rec,
                  episodes |-> Append(old.episodes, rec.number)]]

\* lines 359-364: the records of the grouped shows
ShowRecords(show_episodes) ==
    [k \in 1..Len(show_episodes) |->
        IF Len(show_episodes[k].episodes) > 1
        THEN [show_episodes[k].rec EXCEPT !.episode =
                 ToString(Len(show_episodes[k].episodes)) \o " new episodes ("
                 \o show_episodes[k].rec.number \o ")"]
        ELSE show_episodes[k].rec]

\* list.sort(key=lambda x: int(x.get('added_at', 0)), reverse=True): stable
RECURSIVE InsertByAdded(_, _)
InsertByAdded(sorted, rec) ==
    IF sorted = <<>> THEN <<rec>>
    ELSE IF IntOf(Head(sorted).added_at) >= IntOf(rec.added_at)
         THEN <<Head(sorted)>> \o InsertByAdded(Tail(sorted), rec)
         ELSE <<rec>> \o sorted

RECURSIVE SortByAdded(_)
SortByAdded(records) ==
    IF records = <<>> THEN <<>>
    ELSE InsertByAdded(SortByAdded(SubSeq(records, 1, Len(records) - 1)),
                       records[Len(records)])

\* line 367 raises ValueError when an added_at is no number
SortRaises(records) == \E k \in 1..Len(records) : ~IntParses(records[k].added_at)

PlexPlaceholder ==
    [title_default |-> "$title", line1_default |-> "$episode",
     line2_default |-> "$release", line3_default |-> "$number - $rating - $runtime",
     line4_default |-> "$genres", icon |-> "mdi:eye-off"]

\* lines 370-378: card_json for the sorted and truncated records
OrPlaceholder(cut) == IF cut = <<>> THEN <<PlexPlaceholder>> ELSE cut

\* card_json when the records are cut before they are sorted
PlexCardJsonCutFirst(recently_added, max_items) ==
    OrPlaceholder(SortByAdded(Take(recently_added, max_items)))

\* lines 367-378: card_json
PlexCardJson(recently_added, max_items) ==
    OrPlaceholder(Take(SortByAdded(recently_added), max_items))

\* _clean_unused_images: the files whose item id is in current_ids stay
CleanUnusedImages(files, current_ids) ==
    {f \in files : ImageFileItemId(f) \in current_ids}

(***************************************************************************)
(* The inputs of the Plex sensor.                                          *)
(***************************************************************************)
VideoMatrix ==
    [BaseVideo EXCEPT !.type = Some("movie"), !.ratingKey = Some("11"),
        !.addedAt = Some("200"), !.title = Some("The Matrix"),
        !.year = Some("1999"), !.duration = Some("8160000"),
        !.originallyAvailableAt = Some("1999-03-31"),
        !.summary = Some("A computer hacker learns the truth."),
        !.thumb = Some("/library/metadata/11/thumb"),
        !.guids = <<"imdb://tt0133093", "themoviedb://1?lang=en">>,
        !.genres = <<"Action", "Science Fiction">>]

\* the same film without a Guid: the title resolver finds it
VideoMatrixUntagged ==
    [BaseVideo EXCEPT !.type = Some("movie"), !.ratingKey = Some("12"),
        !.addedAt = Some("100"), !.title = Some("The Matrix (1999)"),
        !.year = Some("1999"), !.art = Some("/library/metadata/12/art")]

\* a film whose addedAt is no number
VideoBadAdded ==
    [BaseVideo EXCEPT !.type = Some("movie"), !.ratingKey = Some("13"),
        !.addedAt = Some("abc"), !.title = Some("Heat")]

VideoDark1 ==
    [BaseVideo EXCEPT !.type = Some("episode"), !.ratingKey = Some("21"),
        !.addedAt = Some("300"), !.title = Some("Secrets"),
        !.grandparentTitle = Some("Dark"), !.parentIndex = Some("1"),
        !.index = Some("1"), !.guids = <<"themoviedb://2">>]

VideoDark2 ==
    [BaseVideo EXCEPT !.type = Some("episode"), !.ratingKey = Some("22"),
        !.addedAt = Some("400"), !.title = Some("Lies"),
        !.grandparentTitle = Some("Dark"), !.parentIndex = Some("1"),
        !.index = Some("2"), !.grandparentThumb = Some("/library/metadata/20/thumb")]

\* an episode with an empty addedAt
VideoDarkBadAdded ==
    [BaseVideo EXCEPT !.type = Some("episode"), !.ratingKey = Some("23"),
        !.addedAt = Some(""), !.title = Some("Double Lives"),
        !.grandparentTitle = Some("Dark"), !.parentIndex = Some("1"),
        !.index = Some("3"), !.guids = <<"themoviedb://2">>]

\* an episode whose index is no number
VideoBadIndex ==
    [BaseVideo EXCEPT !.type = Some("episode"), !.ratingKey = Some("24"),
        !.addedAt = Some("500"), !.title = Some("Past and Present"),
        !.grandparentTitle = Some("Dark"), !.parentIndex = Some("1"),
        !.index = Some("x"), !.guids = <<"themoviedb://2">>]

PlexVideos ==
    {VideoMatrix, VideoMatrixUntagged, VideoBadAdded, VideoDark1, VideoDark2,
     VideoDarkBadAdded, VideoBadIndex}

PlexConfig(sections, max_items) ==
    [sections |-> sections, max_items |-> max_items, tmdb_api_key |-> "key",
     language |-> "en"]

PlexConfigs ==
    {PlexConfig(<<"1">>, m) : m \in 0..MaxMaxItems}
    \cup {PlexConfig(<<"1", "2">>, MaxMaxItems)}

\* the answers to a recentlyAdded fetch that hold at most n Video elements
PlexSectionResps(n) ==
    {Resp(TRUE, 0, <<>>), Resp(FALSE, 500, <<>>)}
    \cup {Resp(FALSE, 200, l) : l \in SeqUpTo(PlexVideos, n)}

\* the catalog's search results for a query
CatalogResults(query) ==
    IF query = "The Matrix" THEN <<1, 5>>
    ELSE IF query = "Dark" THEN <<2>>
    ELSE <<>>

\* the answers to the search request of a query
SearchResps(query) ==
    {Resp(TRUE, 0, SearchBody(<<>>)),
     Resp(FALSE, 200, SearchBody(CatalogResults(query)))}

\* the answers _process_item can receive for an item: one search answer per
\* title variant of an item without Guid identifier, an images answer, and
\* the outcome of a download for each image the item has in Plex
PlexInputs(item) ==
    LET is_episode == item.type = Some("episode")
        title == IF is_episode THEN Get(item.grandparentTitle, "")
                 ELSE Get(item.title, "")
        variants == IF Truthy(GuidTmdbId(item.guids)) THEN <<>>
                    ELSE TitleVariants(title)
        thumb == IF is_episode THEN item.grandparentThumb ELSE item.thumb
        art == IF is_episode THEN item.grandparentArt ELSE item.art
        all == UNION {SearchResps(variants[k]) : k \in 1..Len(variants)}
    IN  {PlexInput(sr, im, po, ba) :
            sr \in {f \in [1..Len(variants) -> all] :
                       \A k \in 1..Len(variants) : f[k] \in SearchResps(variants[k])},
            im \in ImagesResps,
            po \in IF Truthy(thumb) THEN BOOLEAN ELSE {FALSE},
            ba \in IF Truthy(art) THEN BOOLEAN ELSE {FALSE}}

\* what a Video element alone determines, evaluated once per element: its
\* Guid identifier, its title variants, its record before the images (None when building it
\* raises) and the answers its processing can receive
PlexStatic ==
    [item \in PlexVideos |->
        [guid_id |-> GuidTmdbId(item.guids),
         variants |-> TitleVariants(IF item.type = Some("episode")
                                    THEN Get(item.grandparentTitle, "")
                                    ELSE Get(item.title, "")),
         record |-> IF PlexRecordRaises(item) THEN None ELSE Some(PlexRecord(item)),
         inputs |-> PlexInputs(item)]]

(***************************************************************************)
(* PlexMediarrSensor.async_update, one action per resumption.              *)
(***************************************************************************)
PlexInit ==
    /\ plex_cfg \in PlexConfigs
    /\ plex_state = 0
    /\ plex_data = <<>>
    /\ plex_available = TRUE
    /\ plex_cache = <<>>
    /\ plex_current_item_ids = {}
    /\ plex_files = {}
    /\ plex_pc = "idle"
    /\ plex_section = 0
    /\ plex_videos = <<>>
    /\ plex_recently_added = <<>>
    /\ plex_show_episodes = <<>>
    /\ plex_resolved = <<>>
    /\ plex_outcome = "none"
    /\ plex_fetched = 0
    /\ plex_before = <<>>
    /\ plex_got_list = FALSE

\* lines 366-383, or 384-388 when the sort raises: the end of the cycle with
\* the records all
PlexPublish(all, files, current_ids) ==
    /\ plex_pc' = "idle"
    /\ plex_recently_added' = all
    /\ plex_show_episodes' = <<>>
    /\ IF SortRaises(all)
       THEN /\ plex_state' = 0
            /\ plex_data' = <<>>
            /\ plex_available' = FALSE
            /\ plex_outcome' = "error"
            /\ plex_files' = files
       ELSE /\ plex_state' = Len(all)
            /\ plex_data' = PlexCardJson(all, plex_cfg.max_items)
            /\ plex_available' = TRUE
            /\ plex_outcome' = "ok"
            /\ plex_files' = CleanUnusedImages(files, current_ids)

\* lines 359-388: the records of the shows are added and the cycle ends
PlexFinish(recently_added, show_episodes, files, current_ids) ==
    PlexPublish(recently_added \o ShowRecords(show_episodes), files, current_ids)

\* the loop of line 331 after the section at plex_section: the fetch of the
\* next section is issued, or the cycle ends
PlexAfterSection(recently_added, show_episodes, files, current_ids) ==
    /\ plex_videos' = <<>>
    /\ IF plex_section < Len(plex_cfg.sections)
       THEN /\ plex_section' = plex_section + 1
            /\ plex_pc' = "section"
            /\ plex_recently_added' = recently_added
            /\ plex_show_episodes' = show_episodes
            /\ plex_files' = files
            /\ UNCHANGED <<plex_state, plex_data, plex_available, plex_outcome>>
       ELSE /\ plex_section' = plex_section
            /\ PlexFinish(recently_added, show_episodes, files, current_ids)

\* lines 326-333: the cycle starts and the fetch of the first section is issued
PlexBeginCycle ==
    /\ plex_pc = "idle"
    /\ plex_before' = plex_data
    /\ plex_got_list' = FALSE
    /\ plex_recently_added' = <<>>
    /\ plex_show_episodes' = <<>>
    /\ plex_current_item_ids' = {}
    /\ plex_section' = 1
    /\ plex_videos' = <<>>
    /\ plex_resolved' = <<>>
    /\ plex_pc' = "section"
    /\ UNCHANGED <<plex_cfg, plex_state, plex_data, plex_available, plex_cache,
                   plex_files, plex_outcome, plex_fetched>>

\* _fetch_recently_added: the optional list of the Video elements
FetchRecentlyAdded(resp) ==
    IF resp.exc \/ resp.status # 200 THEN None ELSE Some(resp.body)

\* lines 333-336: the fetch of a section is answered
PlexSectionResp(resp) ==
    /\ plex_pc = "section"
    /\ plex_fetched' = plex_fetched + Len(resp.body)
    /\ plex_got_list' = (plex_got_list \/ FetchRecentlyAdded(resp) # None)
    /\ LET data == FetchRecentlyAdded(resp)
       IN  IF data = None \/ data[1] = <<>>
           THEN PlexAfterSection(plex_recently_added, plex_show_episodes,
                                 plex_files, plex_current_item_ids)
           ELSE /\ plex_videos' = data[1]
                /\ plex_pc' = "items"
                /\ UNCHANGED <<plex_section, plex_recently_added,
                               plex_show_episodes, plex_files, plex_state,
                               plex_data, plex_available, plex_outcome>>
    /\ UNCHANGED <<plex_cfg, plex_cache, plex_current_item_ids, plex_resolved,
                   plex_before>>

\* lines 338-356: the value done of _process_item is grouped; raises tells
\* that line 348 raises a ValueError, which ends the section
PlexGroup(item, done, current_ids, is_show, raises) ==
    LET recently_added == IF done.result # None /\ ~is_show
                          THEN Append(plex_recently_added, done.result[1])
                          ELSE plex_recently_added
        show_episodes == IF is_show
                         THEN GroupEpisode(plex_show_episodes, done.result[1])
                         ELSE plex_show_episodes
    IN  /\ plex_cache' = done.cache
        /\ plex_current_item_ids' = current_ids
        /\ plex_resolved' = Append(plex_resolved,
               [item |-> item, tmdb_id |-> done.tmdb_id, via |-> done.via,
                recorded |-> done.result # None /\ ~raises])
        /\ IF raises \/ Len(plex_videos) = 1
           THEN PlexAfterSection(recently_added, show_episodes, done.files,
                                 current_ids)
           ELSE /\ plex_videos' = Tail(plex_videos)
                /\ plex_recently_added' = recently_added
                /\ plex_show_episodes' = show_episodes
                /\ plex_files' = done.files
                /\ UNCHANGED <<plex_pc, plex_section, plex_state, plex_data,
                               plex_available, plex_outcome>>

PlexProcessed(item, done) ==
    PlexGroup(item, done,
              IF Truthy(item.ratingKey)
              THEN plex_current_item_ids \cup {item.ratingKey[1]}
              ELSE plex_current_item_ids,
              done.result # None /\ StartsWithS(done.result[1].number),
              /\ done.result # None
              /\ StartsWithS(done.result[1].number)
              /\ GroupRaises(plex_show_episodes, done.result[1]))

\* lines 336-356: _process_item of the next Video element returns and its
\* record is grouped
PlexItemStep(inp) ==
    /\ plex_pc = "items"
    /\ \E done \in {PlexProcessItem(Head(plex_videos), PlexStatic[Head(plex_videos)],
                                     plex_cache, plex_files, plex_cfg.tmdb_api_key,
                                     plex_cfg.language, inp)} :
           PlexProcessed(Head(plex_videos), done)
    /\ UNCHANGED <<plex_cfg, plex_fetched, plex_before, plex_got_list>>

PlexNext ==
    \/ PlexBeginCycle
    \/ \E resp \in PlexSectionResps(MaxUpstream - plex_fetched) : PlexSectionResp(resp)
    \/ /\ plex_pc = "items"
       /\ \E inp \in PlexStatic[Head(plex_videos)].inputs : PlexItemStep(inp)

(***************************************************************************)
(* TMDBMediarrSensor: the filter.  A record of a library sensor has a      *)
(* title, a name and a tmdb_id, each of which may be absent.               *)
(***************************************************************************)
LibItem(title, name, tmdb_id) == [title |-> title, name |-> name, tmdb_id |-> tmdb_id]

\* title.split(' - ')[0].split(' (')[0]
CleanTitle(title) == BeforeFirst(BeforeFirst(title, " - "), " (")

\* line 61: the title of the item, None for a movie without title
TmdbTitle(item, media_type) ==
    IF media_type = "movie" THEN item.title ELSE Some(Get(item.name, ""))

\* lines 68-83 for the data of one library sensor: "reject", "raise" (the
\* split of a None title) or "pass"
LibraryDecision(data, item, media_type) ==
    LET title == TmdbTitle(item, media_type)
        lib_title(lib) == IF Truthy(lib.title) THEN lib.title[1]
                          ELSE IF Truthy(lib.name) THEN lib.name[1] ELSE ""
    IN  IF data = <<>> THEN "pass"
        ELSE IF \E k \in 1..Len(data) : Str(data[k].tmdb_id) = Str(item.id)
        THEN "reject"
        ELSE IF title = None THEN "raise"
        ELSE IF \E k \in 1..Len(data) :
                   Lower(CleanTitle(lib_title(data[k]))) = Lower(CleanTitle(title[1]))
        THEN "reject"
        ELSE "pass"

\* lines 64-83 over the library sensors in order
RECURSIVE LibraryCheck(_, _, _)
LibraryCheck(library, item, media_type) ==
    IF library = <<>> THEN "pass"
    ELSE LET first == LibraryDecision(Head(library), item, media_type)
         IN  IF first # "pass" THEN first
             ELSE LibraryCheck(Tail(library), item, media_type)

TmdbIsTalkShow(filters, title) ==
    IF ~filters.exclude_talk_shows \/ ~Truthy(title) THEN FALSE
    ELSE HasKeyword(title[1])

\* lines 88-105: the year rule rejects whenever the year parses below min_year
TmdbYearRejects(filters, item, media_type) ==
    LET date == IF media_type = "tv" THEN item.first_air_date
                ELSE IF media_type = "movie" THEN item.release_date
                ELSE None
        year == IF Truthy(date) THEN ParseYear(date[1]) ELSE None
    IN  year # None /\ year[1] < filters.min_year

TmdbLanguageRejects(filters, item) ==
    filters.exclude_non_english /\ Get(item.original_language, "unknown") # "en"

\* the decision of the rules before the genre rule: "reject", "raise", "pass"
TmdbEarlyDecision(filters, library, item, media_type) ==
    LET lib == IF filters.hide_existing THEN LibraryCheck(library, item, media_type)
               ELSE "pass"
    IN  IF item = EmptyItem THEN "reject"
        ELSE IF lib # "pass" THEN lib
        ELSE IF TmdbYearRejects(filters, item, media_type) THEN "reject"
        ELSE IF TmdbLanguageRejects(filters, item) THEN "reject"
        ELSE "pass"

TmdbGenreRejects(filters, item) ==
    /\ filters.exclude_genres # <<>>
    /\ AnyGenreExcluded(Get(item.genre_ids, Some(<<>>))[1], filters.exclude_genres)

\* whether should_include_item raises
TmdbFilterRaises(filters, library, item, media_type) ==
    LET early == TmdbEarlyDecision(filters, library, item, media_type)
    IN  \/ early = "raise"
        \/ /\ early = "pass"
           /\ filters.exclude_genres # <<>>
           /\ Get(item.genre_ids, Some(<<>>)) = None

\* the value should_include_item returns when it does not raise
TmdbShouldIncludeItem(filters, library, item, media_type) ==
    IF TmdbEarlyDecision(filters, library, item, media_type) # "pass" THEN FALSE
    ELSE IF TmdbGenreRejects(filters, item) THEN FALSE
    ELSE IF /\ media_type = "tv"
            /\ filters.exclude_talk_shows
            /\ TmdbIsTalkShow(filters, TmdbTitle(item, media_type))
    THEN FALSE
    ELSE TRUE

\* how should_include_item ends: "raise", the rule that returns False
\* ("empty", "library", "year", "language", "genre", "talk_show"), or
\* "include"
TmdbFilterExit(filters, library, item, media_type) ==
    LET lib == IF filters.hide_existing THEN LibraryCheck(library, item, media_type)
               ELSE "pass"
    IN  IF item = EmptyItem THEN "empty"
        ELSE IF lib = "reject" THEN "library"
        ELSE IF TmdbFilterRaises(filters, library, item, media_type) THEN "raise"
        ELSE IF TmdbYearRejects(filters, item, media_type) THEN "year"
        ELSE IF TmdbLanguageRejects(filters, item) THEN "language"
        ELSE IF TmdbGenreRejects(filters, item) THEN "genre"
        ELSE IF TmdbShouldIncludeItem(filters, library, item, media_type) THEN "include"
        ELSE "talk_show"

(***************************************************************************)
(* TMDBMediarrSensor: the update cycle.                                    *)
(***************************************************************************)
TmdbEndpointUrl(endpoint) ==
    IF endpoint = "trending" THEN "trending/all/week"
    ELSE IF endpoint = "now_playing" THEN "movie/now_playing"
    ELSE IF endpoint = "upcoming" THEN "movie/upcoming"
    ELSE IF endpoint = "on_air" THEN "tv/on_the_air"
    ELSE IF endpoint = "airing_today" THEN "tv/airing_today"
    ELSE IF endpoint = "popular_movies" THEN "movie/popular"
    ELSE IF endpoint = "popular_tv" THEN "tv/popular"
    ELSE "trending/all/week"

\* the requests of one cycle in order: three endpoints with two pages each
\* for popular_tv, one request otherwise
TmdbRequests(endpoint) ==
    IF endpoint = "popular_tv"
    THEN <<"tv/popular", "tv/popular", "trending/tv/week", "trending/tv/week",
           "tv/top_rated", "tv/top_rated">>
    ELSE <<TmdbEndpointUrl(endpoint)>>

GetMediaType(endpoint, item) ==
    IF endpoint \in {"now_playing", "upcoming", "popular_movies"} THEN "movie"
    ELSE IF endpoint \in {"on_air", "airing_today", "popular_tv"} THEN "tv"
    ELSE Get(item.media_type, "movie")

GetYear(item, media_type) ==
    LET date == IF media_type = "movie" THEN Get(item.release_date, "")
                ELSE Get(item.first_air_date, "")
    IN  IF date # "" THEN BeforeFirst(date, "-") ELSE ""

\* lines 228-240 (popular_tv) and 262-274: the record of an included item
TmdbRecord(endpoint, item, media_type) ==
    [title |-> IF endpoint = "popular_tv" THEN Some(Get(item.name, ""))
               ELSE IF media_type = "movie" THEN item.title ELSE item.name,
     type |-> IF media_type = "movie" THEN "movie" ELSE "show",
     year |-> GetYear(item, media_type),
     overview |-> Get(item.overview, ""),
     poster |-> IF Truthy(item.poster_path)
                THEN Some("https://image.tmdb.org/t/p/w500" \o item.poster_path[1])
                ELSE None,
     backdrop |-> IF Truthy(item.backdrop_path)
                  THEN Some("https://image.tmdb.org/t/p/original" \o item.backdrop_path[1])
                  ELSE None,
     tmdb_id |-> item.id,
     popularity |-> item.popularity,
     vote_average |-> item.vote_average]

\* lines 278-283: the first record of every tmdb_id, seen holding the
\* identifiers of the records kept so far
RECURSIVE UniqueResults(_, _)
UniqueResults(results, seen_ids) ==
    IF results = <<>> THEN <<>>
    ELSE IF Head(results).tmdb_id \in seen_ids
    THEN UniqueResults(Tail(results), seen_ids)
    ELSE <<Head(results)>>
         \o UniqueResults(Tail(results), seen_ids \cup {Head(results).tmdb_id})

ExcludedTmdbId == 137228

\* line 287
FilteredResults(unique_results) ==
    SelectIdx(unique_results,
              {k \in 1..Len(unique_results) :
                  unique_results[k].tmdb_id # Some(ExcludedTmdbId)}, 1)

\* lines 126-157: the identifiers of the records of the library sensors
RECURSIVE FetchMediaLibraries(_)
FetchMediaLibraries(library) ==
    IF library = <<>> THEN {}
    ELSE {Str(Head(library)[k].tmdb_id) :
              k \in {j \in 1..Len(Head(library)) :
                        /\ Head(library)[j].tmdb_id # None
                        /\ Head(library)[j].tmdb_id[1] # 0}}
         \cup FetchMediaLibraries(Tail(library))

LibraryRefreshSeconds == 3600

(***************************************************************************)
(* TMDBMediarrSensor: the inputs of the model.                             *)
(***************************************************************************)
\* a movie of the catalog whose identifier is the one line 287 names
ItemExcluded ==
    [EmptyItem EXCEPT !.id = Some(ExcludedTmdbId), !.title = Some("Alien"),
        !.name = Some("Alien"), !.release_date = Some("1979-05-25"),
        !.first_air_date = Some("1979-05-25"), !.original_language = Some("en"),
        !.genre_ids = Some(Some(<<27>>)), !.media_type = Some("movie")]

\* a movie without title
ItemUntitled ==
    [EmptyItem EXCEPT !.id = Some(3), !.release_date = Some("2001-01-01"),
        !.first_air_date = Some("2001-01-01"), !.original_language = Some("en"),
        !.genre_ids = Some(Some(<<18>>)), !.media_type = Some("movie")]

\* a person of the trending feed
ItemPerson ==
    [EmptyItem EXCEPT !.id = Some(4), !.name = Some("Keanu Reeves"),
        !.original_language = Some("en"), !.media_type = Some("person")]

\* a series that both Dark's identifier and a second title describe
ItemDarkAgain ==
    [ItemDark EXCEPT !.name = Some("Dark (2017)"), !.title = Some("Dark (2017)")]

TmdbItems ==
    {ItemMatrix, ItemDark, ItemDarkAgain, ItemExcluded, ItemUntitled, ItemPerson}

\* the data of two library sensors: a Plex record without tmdb_id whose
\* title names The Matrix, and a Radarr record with an unrelated identifier
LibraryData ==
    << <<LibItem(Some("the matrix (1999)"), None, None)>>,
       <<LibItem(None, Some("Solaris"), Some(7))>> >>

TmdbEndpoints == {"trending", "popular_movies", "popular_tv"}

TmdbConfig(endpoint, max_items, filters, library) ==
    [endpoint |-> endpoint, max_items |-> max_items, filters |-> filters,
     library |-> library]

\* the configurations of the TMDB sensor: the trending feed and the
\* six-request feed with every max_items, and, with the largest max_items,
\* every endpoint with and without library data and the trending feed with
\* user filters
TmdbConfigs ==
    {TmdbConfig("trending", m, DefaultFilters, l) :
         m \in 0..MaxMaxItems, l \in {<<>>, LibraryData}}
    \cup {TmdbConfig("popular_tv", m, DefaultFilters, <<>>) : m \in 0..MaxMaxItems}
    \cup {TmdbConfig(e, MaxMaxItems, DefaultFilters, l) :
              e \in TmdbEndpoints, l \in {<<>>, LibraryData}}
    \cup {TmdbConfig("trending", MaxMaxItems,
                     Filters(2000, FALSE, <<>>, FALSE, FALSE), LibraryData)}

\* the answers to a catalog list request that hold at most n items
TmdbListResps(n) ==
    {Resp(TRUE, 0, ListBody(FALSE, <<>>)), Resp(FALSE, 500, ListBody(FALSE, <<>>)),
     Resp(FALSE, 200, ListBody(TRUE, <<>>))}
    \cup {Resp(FALSE, 200, ListBody(FALSE, l)) : l \in SeqUpTo(TmdbItems, n)}

\* the seconds that can pass between the starts of two cycles
TmdbElapsed == {1800, 7200}

\* ages above the refresh period are all alike
MaxAge == 2 * LibraryRefreshSeconds

Min(a, b) == IF a < b THEN a ELSE b

\* should_include_item on the inputs of the model, evaluated once: "raise",
\* "reject" (it returns False) or "include" (it returns True)
TmdbFilterOutcome ==
    [filters \in {c.filters : c \in TmdbConfigs},
     library \in {c.library : c \in TmdbConfigs},
     item \in TmdbItems, media_type \in {"movie", "tv"} |->
        IF TmdbFilterRaises(filters, library, item, media_type) THEN "raise"
        ELSE IF TmdbShouldIncludeItem(filters, library, item, media_type)
        THEN "include"
        ELSE "reject"]

\* the loops of lines 224-240 and 253-274 over the items of one answer:
\* the results after the loop, and whether the filter raised on the way
RECURSIVE TmdbCollect(_, _, _)
TmdbCollect(cfg, items, results) ==
    IF items = <<>> THEN [raised |-> FALSE, results |-> results]
    ELSE LET item == Head(items)
             media_type == IF cfg.endpoint = "popular_tv" THEN "tv"
                           ELSE GetMediaType(cfg.endpoint, item)
         IN  IF media_type \notin {"movie", "tv"}
             THEN TmdbCollect(cfg, Tail(items), results)
             ELSE IF TmdbFilterOutcome[cfg.filters, cfg.library, item, media_type] = "raise"
             THEN [raised |-> TRUE, results |-> results]
             ELSE IF TmdbFilterOutcome[cfg.filters, cfg.library, item, media_type] = "reject"
             THEN TmdbCollect(cfg, Tail(items), results)
             ELSE TmdbCollect(cfg, Tail(items),
                              Append(results, TmdbRecord(cfg.endpoint, item, media_type)))

(***************************************************************************)
(* TMDBMediarrSensor: the actions.                                         *)
(***************************************************************************)
TmdbInit ==
    /\ tmdb_cfg \in TmdbConfigs
    /\ MediarrSensorInit(tmdb_state, tmdb_data, tmdb_available)
    /\ tmdb_library_tmdb_ids = {}
    /\ tmdb_library_age = MaxAge
    /\ tmdb_pc = "idle"
    /\ tmdb_todo = <<>>
    /\ tmdb_results = <<>>
    /\ tmdb_upstream = <<>>
    /\ tmdb_outcome = "none"
    /\ tmdb_cause = "none"
    /\ tmdb_fetched = 0
    /\ tmdb_before = <<>>

\* TmdbPublish without the loop of lines 278-283
TmdbPublishNoDedup(results) ==
    LET filtered_results == FilteredResults(results)
    IN  /\ tmdb_state' = Len(filtered_results)
        /\ tmdb_data' = Take(filtered_results, tmdb_cfg.max_items)
        /\ tmdb_available' = TRUE
        /\ tmdb_outcome' = "ok"
        /\ tmdb_cause' = "none"
        /\ tmdb_pc' = "idle"

\* lines 278-291: the cycle reaches its end
TmdbPublish(results) ==
    LET filtered_results == FilteredResults(UniqueResults(results, {}))
    IN  /\ tmdb_state' = Len(filtered_results)
        /\ tmdb_data' = Take(filtered_results, tmdb_cfg.max_items)
        /\ tmdb_available' = TRUE
        /\ tmdb_outcome' = "ok"
        /\ tmdb_cause' = "none"
        /\ tmdb_pc' = "idle"

\* lines 293-297: an exception reaches the handler of the cycle
TmdbFail(cause) ==
    /\ tmdb_state' = 0
    /\ tmdb_data' = <<>>
    /\ tmdb_available' = FALSE
    /\ tmdb_outcome' = "error"
    /\ tmdb_cause' = cause
    /\ tmdb_pc' = "idle"

\* lines 186-220 or 186-249: the cycle starts when the library identifiers
\* have the given age, refreshes them when they are due and issues the first
\* request; _last_library_fetch is 0 at construction, decades before the
\* first reading of the clock
TmdbBeginCycle(age) ==
    /\ tmdb_pc = "idle"
    /\ tmdb_before' = tmdb_data
    /\ IF age > LibraryRefreshSeconds /\ tmdb_cfg.filters.hide_existing
       THEN /\ tmdb_library_tmdb_ids' = FetchMediaLibraries(tmdb_cfg.library)
            /\ tmdb_library_age' = 0
       ELSE /\ tmdb_library_age' = age
            /\ UNCHANGED tmdb_library_tmdb_ids
    /\ tmdb_results' = <<>>
    /\ tmdb_upstream' = <<>>
    /\ tmdb_todo' = TmdbRequests(tmdb_cfg.endpoint)
    /\ tmdb_pc' = "fetch"
    /\ UNCHANGED <<tmdb_cfg, tmdb_state, tmdb_data, tmdb_available, tmdb_outcome,
                   tmdb_cause, tmdb_fetched>>

\* lines 224-240 or 253-274 and what follows: done is the value of the loop
\* over the items of the answer, last tells that no request is left
TmdbCollected(done, upstream, last) ==
    /\ tmdb_results' = done.results
    /\ tmdb_upstream' = upstream
    /\ IF done.raised THEN TmdbFail("item")
       ELSE IF last THEN TmdbPublish(done.results)
       ELSE UNCHANGED <<tmdb_state, tmdb_data, tmdb_available, tmdb_outcome,
                        tmdb_cause, tmdb_pc>>

\* lines 216-240 or 245-276, then 278-297 after the last request: the
\* request at the head of tmdb_todo is answered
TmdbFetchResp(resp) ==
    /\ tmdb_pc = "fetch"
    /\ tmdb_fetched' = tmdb_fetched + Len(resp.body.results)
    /\ tmdb_todo' = Tail(tmdb_todo)
    /\ IF resp.exc
       THEN /\ TmdbFail("fetch")
            /\ UNCHANGED <<tmdb_results, tmdb_upstream>>
       ELSE IF resp.status # 200
       THEN /\ UNCHANGED <<tmdb_results, tmdb_upstream>>
            /\ IF tmdb_cfg.endpoint # "popular_tv" THEN TmdbFail("fetch")
               ELSE IF Len(tmdb_todo) = 1 THEN TmdbPublish(tmdb_results)
               ELSE UNCHANGED <<tmdb_state, tmdb_data, tmdb_available,
                                tmdb_outcome, tmdb_cause, tmdb_pc>>
       ELSE IF resp.body.malformed
       THEN /\ TmdbFail("fetch")
            /\ UNCHANGED <<tmdb_results, tmdb_upstream>>
       ELSE TmdbCollected(TmdbCollect(tmdb_cfg, resp.body.results, tmdb_results),
                          tmdb_upstream \o resp.body.results, Len(tmdb_todo) = 1)
    /\ UNCHANGED <<tmdb_cfg, tmdb_library_tmdb_ids, tmdb_library_age, tmdb_before>>

TmdbNext ==
    \/ \E dt \in TmdbElapsed : TmdbBeginCycle(Min(tmdb_library_age + dt, MaxAge))
    \/ \E resp \in TmdbListResps(MaxUpstream - tmdb_fetched) : TmdbFetchResp(resp)

(***************************************************************************)
(* The functions on their own.  A behaviour of ResolverSpec calls the      *)
(* title resolver of one sensor instance again and again for one query,    *)
(* each call with upstream answers of its own.  A behaviour of CallSpec    *)
(* is one call of _fetch_tmdb_data or of a filter: it starts with the      *)
(* arguments and the state of the instance, and its one step is the call.  *)
(***************************************************************************)
VARIABLES
    res_query,  \* the title, year and media_type of the resolver calls, with
                \* the variants of the title
    res_cache,  \* self._cache of the instance
    res_log,    \* for every resolver call so far, the value it returned and
                \* the number of requests it issued
    call        \* the call of a function without state: op, args, and out
                \* once it has returned (done)

call_vars == <<res_query, res_cache, res_log, call>>

MaxResolverCalls == 2

ResolverQuery(title, year, media_type) ==
    [title |-> title, variants |-> TitleVariants(title), year |-> year,
     media_type |-> media_type]

ResolverTitles ==
    {"", "Dark", "The Matrix (1999)", "Alien: Covenant", "Heat (Uncut) (1995)"}

\* the answers to a search request
SearchAnswers ==
    {Resp(TRUE, 0, SearchBody(<<>>)), Resp(FALSE, 200, SearchBody(<<>>)),
     Resp(FALSE, 200, SearchBody(<<1, 5>>)), Resp(FALSE, 200, SearchBody(<<2>>))}

Pending(op, args) == [op |-> op, args |-> args, done |-> FALSE, out |-> <<>>]

Returned(pending, out) == [pending EXCEPT !.done = TRUE, !.out = out]

NoCall == Returned(Pending("none", <<>>), <<>>)

\* no resolver call
ResolverIdle ==
    /\ res_query = ResolverQuery("", "None", "movie")
    /\ res_cache = <<>>
    /\ res_log = <<>>

ResolverInit ==
    /\ res_query \in {ResolverQuery(t, y, m) :
                         t \in ResolverTitles, y \in {"None", "1999"},
                         m \in {"movie", "tv"}}
    /\ res_cache = <<>>
    /\ res_log = <<>>

\* the call of _enhanced_tmdb_search has returned done
ResolverReturns(done) ==
    /\ res_cache' = done.cache
    /\ res_log' = Append(res_log, [value |-> done.value, calls |-> done.calls])

\* _enhanced_tmdb_search(title, year, media_type) is called and returns;
\* resps[k] answers the search of variant k if it is issued
ResolverCall(resps) ==
    /\ Len(res_log) < MaxResolverCalls
    /\ ResolverReturns(EnhancedTmdbSearch(res_query.variants, res_query.year,
                                          res_query.media_type, "en", res_cache,
                                          "key", resps))
    /\ UNCHANGED <<res_query, call>>

\* the exchanges of one request: the request fails before an answer (no
\* connection, timeout), the answer has a status and a JSON body, or the
\* answer has status 200 and a body that response.json() fails on
FetchAnswers ==
    {Resp(TRUE, 0, SearchBody(<<>>)), Resp(TRUE, 200, SearchBody(<<>>))}
    \cup {Resp(FALSE, status, body) :
              status \in {200, 204, 404, 500},
              body \in {SearchBody(<<>>), SearchBody(<<1>>)}}

FetchArgs == [api_key : {"", "key"}, resp : FetchAnswers]

\* _fetch_tmdb_data(endpoint, params) is called on an instance with the
\* key api_key and returns; resp is the exchange of its request if it
\* issues one
FetchCall ==
    /\ call.op = "fetch" /\ ~call.done
    /\ call' = Returned(call,
           [requests |-> IF FetchIssuesRequest(call.args.api_key) THEN 1 ELSE 0,
            value |-> FetchTmdbData(call.args.api_key, call.args.resp)])
    /\ UNCHANGED <<res_query, res_cache, res_log>>

\* the items of the filter calls: every combination of these fields
FilterItems(ids) ==
    {[EmptyItem EXCEPT !.id = id, !.title = title, !.name = title,
         !.release_date = date, !.first_air_date = date,
         !.original_language = lang, !.genre_ids = genres] :
        id \in ids,
        title \in {None, Some("Heat"), Some("The Tonight Show Starring Jimmy Fallon")},
        date \in {None, Some(""), Some("soon"), Some("1999-03-31"),
                  Some("2030-01-01"), Some("0000-01-01")},
        lang \in {Some("en"), Some("fr")},
        genres \in {None, Some(None), Some(Some(<<18>>)), Some(Some(<<18, 10767>>))}}

FilterFilters(hide) ==
    {Filters(min_year, talk, genres, non_english, hide) :
        min_year \in {0, 2000}, talk \in BOOLEAN, genres \in {<<>>, <<10767>>},
        non_english \in BOOLEAN}

\* the arguments of a filter call and the filters and library data of the
\* instance
FilterArgs(hide, libraries, ids) ==
    [filters : FilterFilters(hide), library : libraries, item : FilterItems(ids),
     media_type : {"movie", "tv"}]

\* should_include_item(item, media_type) of the base class is called
BaseFilterCall ==
    /\ call.op = "base_filter" /\ ~call.done
    /\ call' = Returned(call, BaseFilterExit(call.args.filters, call.args.item,
                                            call.args.media_type))
    /\ UNCHANGED <<res_query, res_cache, res_log>>

\* the data of one library sensor: a record with the identifier 1
LibraryById == << <<LibItem(Some("Solaris"), None, Some(1))>> >>

\* should_include_item(item, media_type) of the TMDB sensor is called
TmdbFilterCall ==
    /\ call.op = "tmdb_filter" /\ ~call.done
    /\ call' = Returned(call, TmdbFilterExit(call.args.filters, call.args.library,
                                            call.args.item, call.args.media_type))
    /\ UNCHANGED <<res_query, res_cache, res_log>>

\* the titles of the single resolver calls
SearchTitles ==
    ResolverTitles \cup {"Up: Again", "Dune: Part (One) (2021)"}

\* the arguments of a resolver call on an instance with an empty cache,
\* and the answers to the searches it issues
SearchArgs ==
    UNION {[title : {t}, year : {"None", "1999"}, media_type : {"movie", "tv"},
            resps : [1..Len(TitleVariants(t)) -> SearchAnswers]] :
           t \in SearchTitles}

\* _enhanced_tmdb_search(title, year, media_type) is called once
EnhancedSearchCall ==
    /\ call.op = "search" /\ ~call.done
    /\ call' = Returned(call,
           EnhancedTmdbSearch(TitleVariants(call.args.title), call.args.year,
                              call.args.media_type, "en", <<>>, "key",
                              call.args.resps))
    /\ UNCHANGED <<res_query, res_cache, res_log>>

\* the images answers: posters absent, empty or up to two, the first with
\* or without file_path; up to three backdrops with or without file_path
\* and vote_count
ImagesArgs ==
    [posters : {None, Some(<<>>), Some(<<Poster(Some("/p1.jpg"))>>),
                Some(<<Poster(None), Poster(Some("/p2.jpg"))>>),
                Some(<<Poster(Some("/p1.jpg")), Poster(Some("/p2.jpg"))>>)},
     backdrops : {None} \cup
         {Some(bs) : bs \in SeqUpTo({Backdrop(path, votes) :
                                         path \in {None, Some("/a.jpg"), Some("/b.jpg")},
                                         votes \in {None, Some(1), Some(5)}}, 3)}]

\* _get_tmdb_images(tmdb_id, media_type) is called on an instance with an
\* empty cache and the catalog answers 200 with the body of the arguments
GetImagesCall ==
    /\ call.op = "images" /\ ~call.done
    /\ call' = Returned(call,
           GetTmdbImages("1", "movie", <<>>, "key",
                         Resp(FALSE, 200, ImagesBody(call.args.posters,
                                                     call.args.backdrops))))
    /\ UNCHANGED <<res_query, res_cache, res_log>>

\* lines 337-356 for the episode records of one section: show_episodes
\* after the loop, which a ValueError of line 348 ends
RECURSIVE GroupSection(_, _)
GroupSection(show_episodes, recs) ==
    IF recs = <<>> THEN show_episodes
    ELSE IF GroupRaises(show_episodes, Head(recs))
    THEN GroupEpisode(show_episodes, Head(recs))
    ELSE GroupSection(GroupEpisode(show_episodes, Head(recs)), Tail(recs))

\* lines 331-364: the show records of a cycle whose sections hold the
\* episode records sections
RECURSIVE GroupSections(_, _)
GroupSections(show_episodes, sections) ==
    IF sections = <<>> THEN ShowRecords(show_episodes)
    ELSE GroupSections(GroupSection(show_episodes, Head(sections)), Tail(sections))

MaxEpisodes == 3

\* the k-th episode of an answer: an episode of the show title, added at
\* added_at
EpisodeVideo(k, title, added_at) ==
    [VideoDark1 EXCEPT !.grandparentTitle = Some(title), !.index = Some(ToString(k)),
                       !.title = Some("Episode " \o ToString(k)),
                       !.ratingKey = Some(ToString(20 + k)),
                       !.addedAt = Some(added_at)]

\* the episodes of a cycle in the order of the answers, and the positions
\* after which the next section starts
GroupArgs ==
    UNION {[eps : [1..n -> [title : {"Dark", "Lost"}, added_at : {"100", "200", ""}]],
            cuts : SUBSET (1..(n - 1))] : n \in 1..MaxEpisodes}

\* the records _process_item returns for the episodes
EpisodeRecords(eps) ==
    [k \in 1..Len(eps) |-> PlexRecord(EpisodeVideo(k, eps[k].title, eps[k].added_at))]

\* the records cut into sections
SplitSections(recs, cuts) ==
    LET starts == {1} \cup {c + 1 : c \in cuts}
        nth(j) == CHOOSE b \in starts : Cardinality({x \in starts : x < b}) = j - 1
    IN  [j \in 1..Cardinality(starts) |->
            SubSeq(recs, nth(j),
                   IF j = Cardinality(starts) THEN Len(recs) ELSE nth(j + 1) - 1)]

\* the grouping of async_update runs over the episodes of the arguments
GroupCall ==
    /\ call.op = "group" /\ ~call.done
    /\ call' = Returned(call,
           GroupSections(<<>>, SplitSections(EpisodeRecords(call.args.eps),
                                             call.args.cuts)))
    /\ UNCHANGED <<res_query, res_cache, res_log>>

\* should_include_item(item, media_type) of the Seer sensor is called
SeerFilterCall ==
    /\ call.op = "seer_filter" /\ ~call.done
    /\ call' = Returned(call, SeerFilterExit(call.args.filters, call.args.item,
                                            call.args.media_type))
    /\ UNCHANGED <<res_query, res_cache, res_log>>

(***************************************************************************)
(* Two update cycles of one Plex sensor instance.  Nothing in plex.py      *)
(* keeps async_update from being entered while an earlier call of it is    *)
(* suspended; the two calls share self._current_item_ids.  The model       *)
(* follows the accumulator alone: the cycle has one section, and its       *)
(* Video elements are well formed, so that line 383 is reached.            *)
(***************************************************************************)
VARIABLES
    ovl_current_item_ids,  \* self._current_item_ids of the instance
    ovl_pc,                \* of each cycle: "idle", "section" (suspended at
                           \* line 333) or "item" (suspended in line 336)
    ovl_videos,            \* of each cycle: the Video elements left, the one
                           \* in _process_item first
    ovl_processed,         \* of each cycle: the rating keys of the items it
                           \* has handed to _process_item
    ovl_cleaned            \* of each cycle: the set it has passed to
                           \* _clean_unused_images, None before line 383

ovl_vars == <<ovl_current_item_ids, ovl_pc, ovl_videos, ovl_processed, ovl_cleaned>>

Cycles == {1, 2}

OverlapVideos == {VideoMatrix, VideoMatrixUntagged, VideoDark1}

OverlapSectionResps ==
    {resp \in PlexSectionResps(MaxUpstream) :
        \A i \in 1..Len(resp.body) : resp.body[i] \in OverlapVideos}

\* no cycle has started
OverlapIdle ==
    /\ ovl_current_item_ids = {}
    /\ ovl_pc = [c \in Cycles |-> "idle"]
    /\ ovl_videos = [c \in Cycles |-> <<>>]
    /\ ovl_processed = [c \in Cycles |-> {}]
    /\ ovl_cleaned = [c \in Cycles |-> None]

\* lines 326-333: the cycle c starts and issues the fetch of its section
OverlapBegin(c) ==
    /\ ovl_pc[c] = "idle"
    /\ ovl_current_item_ids' = {}
    /\ ovl_pc' = [ovl_pc EXCEPT ![c] = "section"]
    /\ ovl_videos' = [ovl_videos EXCEPT ![c] = <<>>]
    /\ ovl_processed' = [ovl_processed EXCEPT ![c] = {}]
    /\ ovl_cleaned' = [ovl_cleaned EXCEPT ![c] = None]

\* lines 204-214: _process_item of the first of videos starts in the cycle c
\* and runs up to its first request
OverlapProcess(c, videos) ==
    LET item_id == Get(Head(videos).ratingKey, "")
        added == IF item_id # "" THEN {item_id} ELSE {}
    IN  /\ ovl_current_item_ids' = ovl_current_item_ids \cup added
        /\ ovl_processed' = [ovl_processed EXCEPT ![c] = @ \cup added]
        /\ ovl_videos' = [ovl_videos EXCEPT ![c] = videos]
        /\ ovl_pc' = [ovl_pc EXCEPT ![c] = "item"]
        /\ UNCHANGED ovl_cleaned

\* lines 358-383: the cycle c ends and cleans the image cache
OverlapFinish(c) ==
    /\ ovl_cleaned' = [ovl_cleaned EXCEPT ![c] = Some(ovl_current_item_ids)]
    /\ ovl_pc' = [ovl_pc EXCEPT ![c] = "idle"]
    /\ ovl_videos' = [ovl_videos EXCEPT ![c] = <<>>]
    /\ UNCHANGED <<ovl_current_item_ids, ovl_processed>>

\* lines 333-336: the fetch of the section is answered to the cycle c
OverlapSectionResp(c, resp) ==
    /\ ovl_pc[c] = "section"
    /\ LET data == FetchRecentlyAdded(resp)
       IN  IF data = None \/ data[1] = <<>>
           THEN OverlapFinish(c)
           ELSE OverlapProcess(c, data[1])

\* lines 336-356: _process_item returns to the cycle c, which goes on with
\* the next Video element or ends
OverlapItemDone(c) ==
    /\ ovl_pc[c] = "item"
    /\ IF Len(ovl_videos[c]) = 1
       THEN OverlapFinish(c)
       ELSE OverlapProcess(c, Tail(ovl_videos[c]))

(***************************************************************************)
(* The three sensors.  A behaviour follows one sensor, the one that        *)
(* sensor names; the other two stay as constructed.                        *)
(***************************************************************************)
vars == <<sensor, seer_vars, plex_vars, tmdb_vars, call_vars, ovl_vars>>

\* the sensors other than the one named are as constructed
SensorsInit(followed) ==
    /\ sensor \in followed
    /\ SeerInit /\ (sensor # "seer" => seer_cfg = SeerConfig("trending", 0, DefaultFilters, "key"))
    /\ PlexInit /\ (sensor # "plex" => plex_cfg = PlexConfig(<<"1">>, 0))
    /\ TmdbInit /\ (sensor # "tmdb" => tmdb_cfg = TmdbConfig("trending", 0, DefaultFilters, <<>>))

ResolverSpecInit ==
    /\ OverlapIdle
    /\ SensorsInit({"none"})
    /\ ResolverInit
    /\ call = NoCall

ResolverNext ==
    /\ \E resps \in [1..Len(res_query.variants) -> SearchAnswers] : ResolverCall(resps)
    /\ UNCHANGED <<sensor, seer_vars, plex_vars, tmdb_vars, ovl_vars>>

ResolverSpec == ResolverSpecInit /\ [][ResolverNext]_vars

CallInit ==
    /\ OverlapIdle
    /\ SensorsInit({"none"})
    /\ ResolverIdle
    /\ call \in {Pending("fetch", args) : args \in FetchArgs}
           \cup {Pending("search", args) : args \in SearchArgs}
           \cup {Pending("images", args) : args \in ImagesArgs}
           \cup {Pending("group", args) : args \in GroupArgs}
           \cup {Pending("base_filter", args) : args \in FilterArgs(FALSE, {<<>>}, {Some(1)})}
           \cup {Pending("seer_filter", args) : args \in FilterArgs(FALSE, {<<>>}, {Some(1)})}
           \cup {Pending("tmdb_filter", args) :
                     args \in FilterArgs(FALSE, {LibraryData}, {None, Some(1)})
                              \cup FilterArgs(TRUE, {LibraryData, LibraryById},
                                              {None, Some(1)})}

CallNext ==
    /\ \/ FetchCall \/ EnhancedSearchCall \/ GetImagesCall \/ GroupCall
       \/ BaseFilterCall \/ SeerFilterCall \/ TmdbFilterCall
    /\ UNCHANGED <<sensor, seer_vars, plex_vars, tmdb_vars, ovl_vars>>

CallSpec == CallInit /\ [][CallNext]_vars

\* the answers of a catalog whose content changes between two requests:
\* the details of an identifier are revised, images are added
RevisedDetailsResps(tmdb_id) ==
    DetailsResps(tmdb_id)
    \cup {Resp(FALSE, 200, IF tmdb_id = "1" THEN BodyBare ELSE BodyMatrix)}

RevisedImagesResps == ImagesResps \cup {Resp(FALSE, 200, ImagesPosterOnly)}

RevisedInit ==
    /\ ResolverIdle
    /\ call = NoCall
    /\ OverlapIdle
    /\ SensorsInit({"seer"})
    /\ seer_cfg = SeerConfig("trending", MaxMaxItems, DefaultFilters, "key")

\* the steps of the Seer sensor in front of the changing catalog
RevisedNext ==
    /\ \/ \E resp \in RequestsResps : SeerBeginCycle(resp)
       \/ \E resp \in SeerListResps(MaxUpstream - seer_fetched) : SeerListResp(resp)
       \/ \E i \in 1..Len(seer_tasks) :
              \E resp \in RevisedDetailsResps(seer_tasks[i].tmdb_id) :
                  SeerDetailsResp(i, resp)
       \/ \E i \in 1..Len(seer_tasks), resp \in RevisedImagesResps :
              SeerImagesResp(i, resp)
       \/ SeerJoin
    /\ UNCHANGED <<sensor, plex_vars, tmdb_vars, call_vars, ovl_vars>>

RevisedSpec == RevisedInit /\ [][RevisedNext]_vars

OverlapInit ==
    /\ ResolverIdle
    /\ call = NoCall
    /\ OverlapIdle
    /\ SensorsInit({"none"})

OverlapNext ==
    /\ \E c \in Cycles :
           \/ OverlapBegin(c)
           \/ \E resp \in OverlapSectionResps : OverlapSectionResp(c, resp)
           \/ OverlapItemDone(c)
    /\ UNCHANGED <<sensor, seer_vars, plex_vars, tmdb_vars, call_vars>>

OverlapSpec == OverlapInit /\ [][OverlapNext]_vars

Init ==
    /\ ResolverIdle
    /\ call = NoCall
    /\ OverlapIdle
    /\ sensor \in {"seer", "plex", "tmdb"}
    /\ SeerInit /\ (sensor # "seer" => seer_cfg = SeerConfig("trending", 0, DefaultFilters, "key"))
    /\ PlexInit /\ (sensor # "plex" => plex_cfg = PlexConfig(<<"1">>, 0))
    /\ TmdbInit /\ (sensor # "tmdb" => tmdb_cfg = TmdbConfig("trending", 0, DefaultFilters, <<>>))

Next ==
    \/ sensor = "seer" /\ SeerNext /\ UNCHANGED <<sensor, plex_vars, tmdb_vars, call_vars, ovl_vars>>
    \/ sensor = "plex" /\ PlexNext /\ UNCHANGED <<sensor, seer_vars, tmdb_vars, call_vars, ovl_vars>>
    \/ sensor = "tmdb" /\ TmdbNext /\ UNCHANGED <<sensor, seer_vars, plex_vars, call_vars, ovl_vars>>

Spec == Init /\ [][Next]_vars

(***************************************************************************)
(* Properties.                                                             *)
(***************************************************************************)
\* the entries of a published list other than the placeholder
Records(data, placeholder) ==
    SelectIdx(data, {k \in 1..Len(data) : data[k] # placeholder}, 1)

SeerEnded == seer_pc = "idle" /\ seer_outcome = "ok"

PlexEnded == plex_pc = "idle" /\ plex_outcome = "ok"

TmdbEnded == tmdb_pc = "idle" /\ tmdb_outcome = "ok"

\* C1 as stated: the published data of each sensor never holds more than
\* max_items entries, whatever the entries are.
C1_AtMostMaxItemsEntries ==
    /\ seer_outcome # "none" => Len(seer_data) <= seer_cfg.max_items
    /\ plex_outcome # "none" => Len(plex_data) <= plex_cfg.max_items
    /\ tmdb_outcome # "none" => Len(tmdb_data) <= tmdb_cfg.max_items

\* C1 as amended: the published data of each sensor never holds more than
\* max_items records; the only entry it can hold beyond max_items is the
\* single placeholder that the Seer and Plex sensors publish instead of an
\* empty list.
C1_AtMostMaxItemsRecords ==
    /\ seer_outcome # "none" =>
           /\ Len(Records(seer_data, SeerPlaceholder)) <= seer_cfg.max_items
           /\ Len(seer_data) > seer_cfg.max_items => seer_data = <<SeerPlaceholder>>
    /\ plex_outcome # "none" =>
           /\ Len(Records(plex_data, PlexPlaceholder)) <= plex_cfg.max_items
           /\ Len(plex_data) > plex_cfg.max_items => plex_data = <<PlexPlaceholder>>
    /\ tmdb_outcome # "none" => Len(tmdb_data) <= tmdb_cfg.max_items

\* a Seer cycle has cut its records down to a positive max_items
C1_Witness ==
    /\ SeerEnded
    /\ seer_cfg.max_items >= 1
    /\ Len(seer_all_items) > seer_cfg.max_items
    /\ Len(seer_data) = seer_cfg.max_items
    /\ seer_data[1] # SeerPlaceholder

\* C2: no two records published by one Seer cycle carry the same id.
C2_NoDuplicateId ==
    SeerEnded =>
        \A i, j \in 1..Len(Records(seer_data, SeerPlaceholder)) :
            i # j => Records(seer_data, SeerPlaceholder)[i].id
                         # Records(seer_data, SeerPlaceholder)[j].id

\* the records of the upstream items the TMDB sensor includes, in
\* upstream order
TmdbIncluded(cfg, upstream) ==
    LET media_type(item) == IF cfg.endpoint = "popular_tv" THEN "tv"
                            ELSE GetMediaType(cfg.endpoint, item)
        kept == SelectIdx(upstream,
                    {k \in 1..Len(upstream) :
                        /\ media_type(upstream[k]) \in {"movie", "tv"}
                        /\ TmdbFilterOutcome[cfg.filters, cfg.library, upstream[k],
                                             media_type(upstream[k])] = "include"}, 1)
    IN  [k \in 1..Len(kept) |-> TmdbRecord(cfg.endpoint, kept[k], media_type(kept[k]))]

\* the records that no earlier record shares its tmdb_id with
FirstOccurrences(records) ==
    SelectIdx(records,
              {k \in 1..Len(records) :
                  \A j \in 1..(k - 1) : records[j].tmdb_id # records[k].tmdb_id}, 1)

NotExcluded(records) ==
    SelectIdx(records,
              {k \in 1..Len(records) : records[k].tmdb_id # Some(ExcludedTmdbId)}, 1)

C4_OneRecordPerIdentifier ==
    ( /\ PlexEnded
      /\ plex_cfg.max_items >= 1
      /\ Len(plex_resolved) = 2
      /\ plex_resolved[1].tmdb_id # None
      /\ plex_resolved[1].tmdb_id = plex_resolved[2].tmdb_id
      /\ {plex_resolved[1].via, plex_resolved[2].via} = {"guid", "search"} )
    => Len(Records(plex_data, PlexPlaceholder)) = 1

\* C5: every record a Seer cycle publishes was built from an upstream item
\* that is not in the requested set, that should_include_item accepts and
\* whose details _get_tmdb_details returned; a task without details returns
\* no record.
C5_RecordsOfAcceptedItemsWithDetails ==
    SeerEnded =>
        /\ \A k \in 1..Len(Records(seer_data, SeerPlaceholder)) :
               \E src \in seer_sources :
                   /\ Str(src.item.id) = seer_data[k].id
                   /\ (src.media_type = "movie") = (seer_data[k].type = "Movie")
        /\ \A src \in seer_sources :
               /\ Str(src.item.id) \notin seer_requested
               /\ ~SeerFilterRaises(seer_cfg.filters, src.item, src.media_type)
               /\ SeerShouldIncludeItem(seer_cfg.filters, src.item, src.media_type)
               /\ DetailsKey(src.media_type, Str(src.item.id), "en")
                      \in DOMAIN seer_cache
        /\ \A i \in 1..Len(seer_tasks) :
               seer_tasks[i].details = None => seer_tasks[i].result = None

\* a Seer cycle has published a record while it dropped an item of the
\* requested set
C5_Witness ==
    /\ SeerEnded
    /\ Records(seer_data, SeerPlaceholder) # <<>>
    /\ \E i \in 1..Len(seer_tasks) :
           /\ seer_tasks[i].tmdb_id \in seer_requested
           /\ seer_tasks[i].result = None

\* the images of a task are those of a successful images request
SeerHasImages(task) == ImagesKey(task.media_type, task.tmdb_id) \in DOMAIN seer_cache

\* the identifier of a Plex item was found and its images were fetched
PlexHasImages(entry) ==
    /\ entry.tmdb_id # None
    /\ ImagesKey(IF entry.item.type = Some("episode") THEN "tv" ELSE "movie",
                 entry.tmdb_id[1]) \in DOMAIN plex_cache

\* C6 as stated: an item of the Seer or Plex pipeline whose identifier,
\* details or images could not be obtained gives no record.
C6_NoRecordWithoutEnrichment ==
    /\ \A i \in 1..Len(seer_tasks) :
           (seer_tasks[i].pc = "done" /\ seer_tasks[i].result # None)
           => (seer_tasks[i].details # None /\ SeerHasImages(seer_tasks[i]))
    /\ \A k \in 1..Len(plex_resolved) :
           plex_resolved[k].recorded => PlexHasImages(plex_resolved[k])

\* C6 as amended: a Seer item whose details could not be obtained gives no
\* record; a Seer item with details whose images request fails still gives
\* a record, with empty image fields, and a Plex movie gives a record also
\* when the title search finds no identifier or the images request fails.
C6_OnlyMissingDetailsDrop ==
    /\ \A i \in 1..Len(seer_tasks) :
           seer_tasks[i].pc = "done" =>
               /\ seer_tasks[i].details = None => seer_tasks[i].result = None
               /\ seer_tasks[i].details # None => seer_tasks[i].result # None
               /\ (seer_tasks[i].details # None /\ ~SeerHasImages(seer_tasks[i]))
                  => /\ seer_tasks[i].result[1].poster = ""
                     /\ seer_tasks[i].result[1].fanart = ""
                     /\ seer_tasks[i].result[1].banner = ""
    /\ \A k \in 1..Len(plex_resolved) :
           ( /\ plex_resolved[k].item.type = Some("movie")
             /\ IntAttrOk(plex_resolved[k].item.duration) )
           => plex_resolved[k].recorded

\* a Seer cycle has published a record of an item whose images request
\* failed
C6_Witness ==
    /\ SeerEnded
    /\ \E i \in 1..Len(seer_tasks) :
           /\ seer_tasks[i].result # None
           /\ ~SeerHasImages(seer_tasks[i])
           /\ \E k \in 1..Len(seer_data) : seer_data[k] = seer_tasks[i].result[1]

\* C7: the join of _process_media_items happens when every task has
\* returned, and it adds to all_items, in task order, the record of every
\* task that obtained its details, whatever the other tasks did.
C7_JoinKeepsEveryRecord ==
    [][(seer_pc = "gather" /\ seer_pc' # "gather") =>
          /\ \A i \in 1..Len(seer_tasks) : seer_tasks[i].pc = "done"
          /\ \A i \in 1..Len(seer_tasks) :
                 seer_tasks[i].details # None => seer_tasks[i].result # None
          /\ seer_all_items' = seer_all_items \o
                 [k \in 1..Len(SelectIdx(seer_tasks,
                                  {i \in 1..Len(seer_tasks) :
                                      seer_tasks[i].details # None}, 1)) |->
                     SelectIdx(seer_tasks,
                               {i \in 1..Len(seer_tasks) :
                                   seer_tasks[i].details # None}, 1)[k].result[1]]
      ]_vars

\* a Seer cycle has published the record of a task that came after a task
\* that raised
C7_Witness ==
    /\ SeerEnded
    /\ \E i, j \in 1..Len(seer_tasks) :
           /\ i < j
           /\ seer_tasks[i].raised
           /\ seer_tasks[j].result # None
           /\ \E k \in 1..Len(seer_data) : seer_data[k] = seer_tasks[j].result[1]

\* C8: no Plex cycle ends in the failure state (its fetches never raise, so
\* only the content of an item can take it there), and no TMDB cycle ends in
\* the failure state because of an item.
C8_NoItemFailsTheCycle ==
    /\ plex_outcome # "error"
    /\ ~(tmdb_outcome = "error" /\ tmdb_cause = "item")

\* C9: after a cycle that ended in the handler of async_update the sensor
\* shows state 0, no data and available False.
C9_FailureResets ==
    /\ seer_outcome = "error"
       => (seer_state = 0 /\ seer_data = <<>> /\ ~seer_available)
    /\ plex_outcome = "error"
       => (plex_state = 0 /\ plex_data = <<>> /\ ~plex_available)
    /\ tmdb_outcome = "error"
       => (tmdb_state = 0 /\ tmdb_data = <<>> /\ ~tmdb_available)

\* a cycle has ended in the handler after the cycle before it had published
\* records
C9_Witness ==
    \/ /\ seer_pc = "idle" /\ seer_outcome = "error"
       /\ Records(seer_before, SeerPlaceholder) # <<>>
    \/ /\ plex_pc = "idle" /\ plex_outcome = "error"
       /\ Records(plex_before, PlexPlaceholder) # <<>>
    \/ /\ tmdb_pc = "idle" /\ tmdb_outcome = "error"
       /\ tmdb_before # <<>>

\* C10: a Seer or Plex cycle in which no list fetch returned a list ends
\* with state 0 and available False.
C10_TotalFailureUnavailable ==
    /\ (seer_pc = "idle" /\ seer_outcome # "none" /\ ~seer_got_list)
       => (seer_state = 0 /\ ~seer_available)
    /\ (plex_pc = "idle" /\ plex_outcome # "none" /\ ~plex_got_list)
       => (plex_state = 0 /\ ~plex_available)

\* C11: a Seer or Plex cycle that ends after receiving only empty item lists
\* publishes exactly the placeholder and reports state 0.
C11_EmptyListPlaceholderStateZero ==
    /\ (SeerEnded /\ seer_got_list /\ seer_tasks = <<>>)
       => (seer_data = <<SeerPlaceholder>> /\ seer_state = 0)
    /\ (PlexEnded /\ plex_got_list /\ plex_resolved = <<>>)
       => (plex_data = <<PlexPlaceholder>> /\ plex_state = 0)

\* C12: a TMDB cycle that ends without an included item publishes exactly
\* one entry, a placeholder with the template fields.
C12_TmdbPlaceholderWhenEmpty ==
    (TmdbEnded /\ TmdbIncluded(tmdb_cfg, tmdb_upstream) = <<>>)
    => /\ Len(tmdb_data) = 1
       /\ "title_default" \in DOMAIN tmdb_data[1]

\* C13: over the whole life of a Seer sensor, _get_tmdb_details issues at
\* most one request for every details cache key (identifier, media kind,
\* language).
C13_OneDetailsFetchPerKey ==
    \A key \in DOMAIN seer_details_fetches : seer_details_fetches[key] <= 1

\* C14: two calls of _enhanced_tmdb_search with the same title, year and
\* kind return the same identifier and issue together no more than one
\* search request.
C14_ResolverIdempotent ==
    Len(res_log) >= 2 =>
        /\ res_log[1].value = res_log[2].value
        /\ res_log[1].calls + res_log[2].calls <= 1

\* C15 as stated: a call of _fetch_tmdb_data issues at most one request and
\* returns the body exactly when the instance has an API key and the status
\* of the answer is 200; otherwise it returns None.
C15_BodyExactlyOnStatus200 ==
    (call.op = "fetch" /\ call.done) =>
        /\ call.out.requests <= 1
        /\ call.out.value \in {None, Some(call.args.resp.body)}
        /\ call.out.value # None <=>
               (call.args.api_key # "" /\ call.args.resp.status = 200)

\* C15: a call of _fetch_tmdb_data issues at most one request, none without
\* an API key, and returns the body exactly when the instance has an API
\* key, the status of the answer is 200 and its body parses; otherwise it
\* returns None.
C15_BodyExactlyOnParsed200 ==
    (call.op = "fetch" /\ call.done) =>
        /\ call.out.requests <= 1
        /\ call.args.api_key = "" => call.out.requests = 0
        /\ call.out.value \in {None, Some(call.args.resp.body)}
        /\ call.out.value # None <=>
               /\ call.args.api_key # ""
               /\ ~call.args.resp.exc
               /\ call.args.resp.status = 200

C15_Witness ==
    /\ call.op = "fetch" /\ call.done
    /\ call.out.requests = 1
    /\ call.args.resp.status = 200
    /\ call.out.value = Some(call.args.resp.body)

\* the date field of the media kind, and whether its year parses
DateOfKind(item, media_type) ==
    IF media_type = "tv" THEN item.first_air_date ELSE item.release_date

YearParses(date) == Truthy(date) /\ ParseYear(date[1]) # None

FilterReturned ==
    call.op \in {"base_filter", "seer_filter", "tmdb_filter"} /\ call.done

\* the filter configuration under which no rule but the year floor and the
\* library rule can end the evaluation
OnlyYearRule(filters) ==
    /\ ~filters.exclude_non_english
    /\ filters.exclude_genres = <<>>
    /\ ~filters.exclude_talk_shows

\* C16: in the three filter variants the year-floor rule rejects an item
\* only when the year of its date field parses and is below min_year; an
\* item whose date is absent, empty or unparsable is not rejected by it, and
\* is included when no other rule applies.
C16_UnparsableDatePasses ==
    FilterReturned =>
        LET date == DateOfKind(call.args.item, call.args.media_type)
        IN  /\ call.out = "year" =>
                   /\ YearParses(date)
                   /\ ParseYear(date[1])[1] < call.args.filters.min_year
            /\ (~YearParses(date) /\ OnlyYearRule(call.args.filters))
                   => call.out \in {"include", "library", "raise"}
            /\ (/\ ~YearParses(date) /\ OnlyYearRule(call.args.filters)
                /\ call.op # "tmdb_filter" /\ call.args.item.genre_ids # Some(None))
                   => call.out = "include"

C16_Witness ==
    /\ FilterReturned
    /\ call.args.item.release_date = Some("soon")
    /\ call.args.filters.min_year = 2000
    /\ call.out = "include"

\* the genre identifiers an item carries: none when genre_ids is absent or
\* null
GenreSet(item) ==
    LET genre_ids == Get(item.genre_ids, None)
    IN  IF genre_ids = None THEN {} ELSE {genre_ids[1][g] : g \in 1..Len(genre_ids[1])}

ExcludedSet(filters) ==
    {filters.exclude_genres[e] : e \in 1..Len(filters.exclude_genres)}

\* C17: the Seer should_include_item returns true exactly when the year
\* does not parse below min_year, exclude_non_english is unset or the
\* language is 'en', the genres of the item are disjoint from
\* exclude_genres, and the talk-show rule does not reject.
C17_SeerIncludesExactlyWhenAllRulesPass ==
    (call.op = "seer_filter" /\ call.done) =>
        LET item == call.args.item
            filters == call.args.filters
            date == DateOfKind(item, call.args.media_type)
            name == IF Truthy(item.name) THEN item.name[1] ELSE Get(item.title, "")
        IN  call.out = "include" <=>
                /\ ~(YearParses(date) /\ ParseYear(date[1])[1] < filters.min_year)
                /\ ~filters.exclude_non_english \/ item.original_language = Some("en")
                /\ GenreSet(item) \cap ExcludedSet(filters) = {}
                /\ ~(/\ call.args.media_type = "tv"
                     /\ filters.exclude_talk_shows
                     /\ HasKeyword(name))

\* C18: the talk-show rule rejects only a series, only with
\* exclude_talk_shows set, and only when the lower-cased title contains a
\* keyword; the series 'The Tonight Show Starring Jimmy Fallon' is rejected
\* with exclude_talk_shows set, by the talk-show rule when no earlier rule
\* ends the evaluation.
C18_TalkShowRuleOnlySeriesWithFlag ==
    FilterReturned =>
        LET item == call.args.item
            filters == call.args.filters
            fallon == /\ call.args.media_type = "tv"
                      /\ filters.exclude_talk_shows
                      /\ item.name = Some("The Tonight Show Starring Jimmy Fallon")
        IN  /\ call.out = "talk_show" =>
                   /\ call.args.media_type = "tv"
                   /\ filters.exclude_talk_shows
                   /\ item.name # None
                   /\ HasKeyword(item.name[1])
            /\ fallon => call.out # "include"
            /\ (/\ fallon
                /\ filters.min_year = 0
                /\ item.original_language = Some("en")
                /\ item.genre_ids = Some(Some(<<18>>))
                /\ ~filters.hide_existing)
                   => call.out = "talk_show"

C18_Witness ==
    /\ FilterReturned
    /\ call.args.item.name = Some("The Tonight Show Starring Jimmy Fallon")
    /\ call.out = "talk_show"

\* the records of all library sensors
RECURSIVE LibraryRecords(_)
LibraryRecords(library) ==
    IF library = <<>> THEN {}
    ELSE {Head(library)[k] : k \in 1..Len(Head(library))}
             \cup LibraryRecords(Tail(library))

\* a library record matches an item by identifier, both present, or by
\* normalized title
RecordMatches(rec, item, media_type) ==
    LET title == IF media_type = "movie" THEN item.title ELSE item.name
        lib_title == IF Truthy(rec.title) THEN rec.title ELSE rec.name
    IN  \/ rec.tmdb_id # None /\ item.id # None /\ rec.tmdb_id = item.id
        \/ /\ title # None /\ lib_title # None
           /\ Lower(CleanTitle(lib_title[1])) = Lower(CleanTitle(title[1]))

\* C20: the TMDB should_include_item rejects on library grounds exactly
\* when hide_existing is set and a record of a library sensor has the
\* identifier of the item, both present, or its normalized title.
C20_LibraryRejectsExactlyOnMatch ==
    (call.op = "tmdb_filter" /\ call.done) =>
        (call.out = "library" <=>
            /\ call.args.filters.hide_existing
            /\ \E rec \in LibraryRecords(call.args.library) :
                   RecordMatches(rec, call.args.item, call.args.media_type))

\* C19: in a Seer cycle a task that waits for a details or an images answer
\* belongs to an item outside the requested set that should_include_item
\* accepts: no request is issued for a requested or a rejected item.
C19_NoRequestForRejectedItem ==
    \A i \in 1..Len(seer_tasks) :
        seer_tasks[i].pc \in {"details", "images"} =>
            /\ seer_tasks[i].tmdb_id \notin seer_requested
            /\ SeerFilterExit(seer_cfg.filters, seer_tasks[i].item,
                              seer_tasks[i].media_type) = "include"

C19_Witness ==
    \E i, j \in 1..Len(seer_tasks) :
        /\ seer_tasks[i].item.original_language = Some("fr")
        /\ seer_cfg.filters.exclude_non_english
        /\ seer_tasks[i].pc = "done"
        /\ seer_tasks[j].pc = "details"

\* a search answer that carries results
HasResults(resp) == ~resp.exc /\ resp.status = 200 /\ resp.body.results # <<>>

\* the variants the resolver is to try for the titles of the calls, written
\* out: the title, the title without its trailing year, the title without
\* parenthesized segments, the text before the first colon
ExpectedVariants(title) ==
    CASE title = "" -> <<"">>
      [] title = "Dark" -> <<"Dark">>
      [] title = "The Matrix (1999)" -> <<"The Matrix (1999)", "The Matrix">>
      [] title = "Alien: Covenant" -> <<"Alien: Covenant", "Alien">>
      [] title = "Up: Again" -> <<"Up: Again">>
      [] title = "Heat (Uncut) (1995)" ->
             <<"Heat (Uncut) (1995)", "Heat (Uncut)", "Heat">>
      [] title = "Dune: Part (One) (2021)" ->
             <<"Dune: Part (One) (2021)", "Dune: Part (One)", "Dune: Part", "Dune">>

\* C21: a call of _enhanced_tmdb_search on an empty cache searches the
\* variants of the title in order up to the first whose answer carries
\* results, returns the identifier at index 0 of that answer and stores it
\* under that variant; it returns None after searching every variant when
\* no answer carries results.
C21_FirstSuccessfulVariantWins ==
    (call.op = "search" /\ call.done) =>
        LET variants == ExpectedVariants(call.args.title)
            resps == call.args.resps
            hits == {k \in 1..Len(variants) : variants[k] # "" /\ HasResults(resps[k])}
            first == CHOOSE k \in hits : \A h \in hits : k <= h
        IN  /\ DOMAIN resps = 1..Len(variants)
            /\ hits = {} =>
                   /\ call.out.value = None
                   /\ call.out.cache = <<>>
                   /\ call.out.calls = IF call.args.title = "" THEN 0 ELSE Len(variants)
            /\ hits # {} =>
                   /\ call.out.value = Some(resps[first].body.results[1])
                   /\ call.out.calls = first
                   /\ DOMAIN call.out.cache =
                          {SearchKey(call.args.media_type, variants[first],
                                     call.args.year, "en")}

C21_Witness ==
    /\ call.op = "search" /\ call.done
    /\ call.args.title = "Dune: Part (One) (2021)"
    /\ call.out.calls = 3
    /\ call.out.value = Some(1)
    /\ ~HasResults(call.args.resps[2])
    /\ HasResults(call.args.resps[4])

\* the position of the backdrop with the most votes among the positions
\* idx, the first one on ties; a backdrop without vote_count has 0 votes
MostVoted(backdrops, idx) ==
    CHOOSE i \in idx : \A j \in idx :
        \/ Get(backdrops[i].vote_count, 0) > Get(backdrops[j].vote_count, 0)
        \/ Get(backdrops[i].vote_count, 0) = Get(backdrops[j].vote_count, 0) /\ i <= j

\* the URL of an image of the given size, None without file_path
UrlOf(size, image) ==
    IF image.file_path = None THEN None
    ELSE Some("https://image.tmdb.org/t/p/" \o size \o image.file_path[1])

\* C22: for an images answer _get_tmdb_images returns the URL of the first
\* poster, the URL of the backdrop with the most votes, and the URL of the
\* backdrop with the second most votes (of the only backdrop, when there
\* is one); a backdrop slot that is still empty takes the poster URL when
\* there is one.
C22_ImagesFirstPosterTopBackdrops ==
    (call.op = "images" /\ call.done) =>
        LET posters == Get(call.args.posters, <<>>)
            backdrops == Get(call.args.backdrops, <<>>)
            all == 1..Len(backdrops)
            top == MostVoted(backdrops, all)
            second == MostVoted(backdrops, all \ {top})
            poster == IF posters = <<>> THEN None ELSE UrlOf("w500", posters[1])
            backdrop == IF backdrops = <<>> THEN None ELSE UrlOf("w780", backdrops[top])
            main == IF backdrops = <<>> THEN None
                    ELSE IF Len(backdrops) = 1 THEN UrlOf("original", backdrops[1])
                    ELSE UrlOf("original", backdrops[second])
        IN  call.out.value = <<poster,
                               IF backdrop = None THEN poster ELSE backdrop,
                               IF main = None THEN poster ELSE main>>

C22_Witness ==
    /\ call.op = "images" /\ call.done
    /\ call.args.backdrops = Some(<<Backdrop(Some("/a.jpg"), Some(1)),
                                    Backdrop(None, None),
                                    Backdrop(Some("/b.jpg"), Some(5))>>)
    /\ call.out.value = <<Some("https://image.tmdb.org/t/p/w500/p1.jpg"),
                          Some("https://image.tmdb.org/t/p/w780/b.jpg"),
                          Some("https://image.tmdb.org/t/p/original/a.jpg")>>

\* C23: a value stored in the memoization cache of a sensor never changes
\* and is never removed.
C23_CacheEntriesNeverChange ==
    [][/\ \A key \in DOMAIN seer_cache :
              key \in DOMAIN seer_cache' /\ seer_cache'[key] = seer_cache[key]
       /\ \A key \in DOMAIN plex_cache :
              key \in DOMAIN plex_cache' /\ plex_cache'[key] = plex_cache[key]]_vars

\* a task has built a record
TaskHasRecord(task) == task.result # None

\* C24: whatever the order in which the tasks of a list complete, the data
\* of a Seer cycle with one list are the records of the tasks in the
\* upstream order of their items, cut to max_items, and every record is
\* built from the item of its own task.
C24_DataInUpstreamOrder ==
    (SeerEnded /\ seer_got_list /\ seer_cfg.content_type # "discover") =>
        LET built == SelectSeq(seer_tasks, TaskHasRecord)
        IN  /\ Records(seer_data, SeerPlaceholder) =
                   Take([k \in 1..Len(built) |-> built[k].result[1]],
                        seer_cfg.max_items)
            /\ \A k \in 1..Len(built) :
                   built[k].result[1].id = Str(built[k].item.id)

C24_Witness ==
    /\ SeerEnded /\ seer_got_list /\ seer_cfg.content_type # "discover"
    /\ Len(seer_tasks) = 2
    /\ Len(seer_data) = 2
    /\ seer_data[1] = seer_tasks[1].result[1]
    /\ seer_data[2] = seer_tasks[2].result[1]
    /\ seer_data[1].id # seer_data[2].id

\* the injections from the positions of data into the positions of all
\* that map every record of data to an equal record of all
Placements(data, all) ==
    {f \in [1..Len(data) -> 1..Len(all)] :
        /\ \A j, k \in 1..Len(data) : f[j] = f[k] => j = k
        /\ \A k \in 1..Len(data) : data[k] = all[f[k]]}

\* C25: the data of a successful Plex cycle are sorted by added_at from the
\* newest on, hold max_items records (all records, when there are fewer),
\* and no record of the cycle left out is newer than a record they hold.
C25_PlexNewestRecordsSorted ==
    PlexEnded =>
        LET data == Records(plex_data, PlexPlaceholder)
            all == plex_recently_added
        IN  /\ \A k \in 1..(Len(data) - 1) :
                   IntOf(data[k].added_at) >= IntOf(data[k + 1].added_at)
            /\ Len(data) = IF Len(all) < plex_cfg.max_items THEN Len(all)
                           ELSE plex_cfg.max_items
            /\ \E f \in Placements(data, all) :
                   \A i \in 1..Len(all) :
                       (\A k \in 1..Len(data) : f[k] # i) =>
                           \A k \in 1..Len(data) :
                               IntOf(all[i].added_at) <= IntOf(data[k].added_at)

C25_Witness ==
    /\ PlexEnded
    /\ Len(plex_recently_added) = 2
    /\ plex_cfg.max_items = 1
    /\ IntOf(plex_recently_added[1].added_at) < IntOf(plex_recently_added[2].added_at)
    /\ plex_data = <<plex_recently_added[2]>>


(***************************************************************************)
(* The update cycles under the scheduling the code guarantees.  A request  *)
(* under async_timeout.timeout(10) that has not been answered after ten    *)
(* seconds raises: for the requests of the Seer cycle (seer_discovery.py   *)
(* lines 140 and 158, tmdb_sensor.py lines 131 and 146) and of the Plex    *)
(* cycle (plex.py lines 118, 136 and 402) the step in which the pending    *)
(* request raises is therefore taken when it stays enabled.  The two       *)
(* requests of the TMDB cycle (tmdb.py lines 216 and 245) are issued with  *)
(* no timeout, and nothing promises their answer or their failure.         *)
(***************************************************************************)
\* a pending request of the Seer cycle raises by its timeout, or the gather
\* whose tasks are all done returns
SeerBoundedStep ==
    /\ sensor = "seer"
    /\ \/ SeerListResp(Resp(TRUE, 0, ListBody(FALSE, <<>>)))
       \/ \E i \in 1..Len(seer_tasks) : SeerDetailsResp(i, Resp(TRUE, 0, EmptyDetailsBody))
       \/ \E i \in 1..Len(seer_tasks) : SeerImagesResp(i, Resp(TRUE, 0, EmptyImagesBody))
       \/ SeerJoin
    /\ UNCHANGED <<sensor, plex_vars, tmdb_vars, call_vars, ovl_vars>>

\* the answers to _process_item of an item in which every request raises
\* and no image is downloaded
PlexTimedOut(item) ==
    CHOOSE inp \in PlexStatic[item].inputs :
        /\ \A k \in DOMAIN inp.searches : inp.searches[k].exc
        /\ inp.images.exc
        /\ ~inp.poster /\ ~inp.backdrop

\* the pending requests of the Plex cycle raise by their timeouts
PlexBoundedStep ==
    /\ sensor = "plex"
    /\ \/ PlexSectionResp(Resp(TRUE, 0, <<>>))
       \/ /\ plex_pc = "items"
          /\ \E inp \in {PlexTimedOut(Head(plex_videos))} : PlexItemStep(inp)
    /\ UNCHANGED <<sensor, seer_vars, tmdb_vars, call_vars, ovl_vars>>

\* the sensor that is followed has one configuration
TimedInit ==
    /\ ResolverIdle
    /\ call = NoCall
    /\ OverlapIdle
    /\ SensorsInit({"seer", "plex", "tmdb"})
    /\ sensor = "seer" => seer_cfg = SeerConfig("trending", 1, DefaultFilters, "key")
    /\ sensor = "plex" => plex_cfg = PlexConfig(<<"1">>, 1)
    /\ sensor = "tmdb" => tmdb_cfg = TmdbConfig("trending", 1, DefaultFilters, <<>>)

TimedSpec ==
    TimedInit /\ [][Next]_vars /\ WF_vars(SeerBoundedStep) /\ WF_vars(PlexBoundedStep)

\* C26: every update cycle of the Seer, Plex and TMDB sensors that has
\* started eventually ends, also when an upstream never answers a request
C26_EveryCycleEnds ==
    /\ (seer_pc # "idle") ~> (seer_pc = "idle")
    /\ (plex_pc # "idle") ~> (plex_pc = "idle")
    /\ (tmdb_pc # "idle") ~> (tmdb_pc = "idle")

\* C27: whenever a Plex update cycle calls _clean_unused_images, the set it
\* passes contains the rating key of every item that cycle processed, also
\* when a second cycle of the same sensor started in the meantime
C27_CleanedSetHoldsProcessed ==
    \A c \in Cycles :
        ovl_cleaned[c] # None => ovl_processed[c] \subseteq ovl_cleaned[c][1]

\* C28: the three filter variants agree: for every item, media kind and
\* filter configuration with hide_existing unset, should_include_item of the
\* base class, of the Seer sensor and of the TMDB sensor return the same
\* decision
C28_FilterVariantsAgree ==
    call.op = "base_filter" /\ call.done =>
        /\ call.out = SeerFilterExit(call.args.filters, call.args.item,
                                     call.args.media_type)
        /\ call.out = TmdbFilterExit(call.args.filters, call.args.library,
                                     call.args.item, call.args.media_type)

\* the kind of an upstream item: the lists of the popular modes hold one
\* kind each, the trending list holds both and every item names its own
ItemKind(content_type, item) ==
    IF content_type = "popular_movies" THEN "movie"
    ELSE IF content_type = "popular_tv" THEN "tv"
    ELSE Get(item.media_type, "tv")

\* C29: in every record a Seer cycle publishes, 'type' is 'Movie' exactly
\* when the upstream item it was built from is a movie, and the media kind
\* of its filter, details and images calls is the kind of that item
C29_RecordKindIsItemKind ==
    (SeerEnded /\ seer_got_list /\ seer_cfg.content_type # "discover") =>
        LET built == SelectSeq(seer_tasks, TaskHasRecord)
        IN  \A k \in 1..Min(Len(built), seer_cfg.max_items) :
                LET kind == ItemKind(seer_cfg.content_type, built[k].item)
                IN  /\ (built[k].result[1].type = "Movie") <=> (kind = "movie")
                    /\ built[k].media_type = kind

\* C30: in a Plex cycle that publishes, the episodes that share a show
\* title produce exactly one record; its added_at is the greatest added_at
\* among them, its number the number of the earliest episode with that
\* added_at, and its episode text is 'N new episodes (<number>)' for N > 1
\* episodes and the title of the episode for N = 1
C30_OneRecordPerShow ==
    (call.op = "group" /\ call.done
        /\ \A j \in 1..Len(call.out) : IntParses(call.out[j].added_at)) =>
        LET recs == EpisodeRecords(call.args.eps)
        IN  \A t \in {recs[k].title : k \in 1..Len(recs)} :
                LET of_show == {k \in 1..Len(recs) : recs[k].title = t}
                    dated == {k \in of_show : IntParses(recs[k].added_at)}
                    top == CHOOSE k \in dated :
                               \A m \in dated :
                                   \/ IntOf(recs[m].added_at) < IntOf(recs[k].added_at)
                                   \/ /\ recs[m].added_at = recs[k].added_at
                                      /\ k <= m
                    first == CHOOSE k \in of_show : \A m \in of_show : k <= m
                    N == Cardinality(of_show)
                    got == {j \in 1..Len(call.out) : call.out[j].title = t}
                IN  /\ Cardinality(got) = 1
                    /\ \A j \in got :
                           /\ call.out[j].added_at = recs[top].added_at
                           /\ call.out[j].number = recs[top].number
                           /\ call.out[j].episode =
                                  IF N > 1
                                  THEN ToString(N) \o " new episodes ("
                                       \o recs[top].number \o ")"
                                  ELSE recs[first].episode
=============================================================================
